---- MODULE Spec2Model ----
(***************************************************************************)
(* Model of the scoring engine of hubspot-intent-unification-engine        *)
(* (services/scoringEngine, kept in src/unnamed/part_001), of the intent   *)
(* ingest routes that drive it (src/src/routes/oauth.ts) and of the        *)
(* enrichment tracker (src/src/services/enrichmentSync.ts).                *)
(*                                                                         *)
(* Time is counted in days.  Real numbers are kept exact: a per-source     *)
(* score is a fraction <<num, den>>, a weight is a number of hundredths,   *)
(* and Math.round(x) is floor(x + 1/2).                                    *)
(***************************************************************************)
EXTENDS Integers, Sequences, FiniteSets, TLC

(* ------------------------------ bounds --------------------------------- *)

\* Most signals the ledger holds, over all companies.
MaxSignals == 2

\* Most signals of a two-company ledger drawn for the query specification.
MaxQuerySignals == 3

\* Most clock advances in a behaviour.
MaxTicks == 2

\* Most signals in one ingest request.
MaxBatch == 2

\* Most snapshots the enrichment store holds.
MaxSnapshots == 2

\* Most snapshots in one processBatchEnrichment call.
MaxEnrichBatch == 2

\* Asynchronous calls in flight at a time.
MaxCalls == 2

(* ------------------------- input domains ------------------------------- *)

Companies == {"c1", "c2"}

Sources == {"apollo", "zoominfo"}

Topics == {"Cloud"}

\* Strengths of the signals appended while the engine runs.
Strengths == {20, 80}

\* Strengths of the signals of a ledger drawn for the query specification:
\* they put overall scores 5 and 6 apart and exactly 25 % apart, give a
\* score that ends in .5 before rounding, and include a score of 0.
QueryStrengths == {0, 10, 12, 20, 56, 60, 80}

\* The scoring configurations a process can start with (read from the
\* environment once, at load time): the defaults, and one whose weights do
\* not sum to 1.  Weights are in hundredths.
DefaultConfig ==
    [apolloWeight |-> 50, zoomInfoWeight |-> 50, decayDays |-> 30,
     spikeThresholdPercent |-> 25]

Configs ==
    {DefaultConfig,
     [apolloWeight |-> 100, zoomInfoWeight |-> 100, decayDays |-> 30,
      spikeThresholdPercent |-> 50]}

\* The clock advances by half a default decay window at a time.
TickDays == DefaultConfig.decayDays \div 2

EntityTypes == {"company", "contact"}

EntityIds == {"e1"}

VARIABLES
    signalStore,   \* Map<string, IntentSignal[]>: the array of each key
    storeKeys,     \* the keys of signalStore, in insertion order
    scoreCache,    \* Map<string, UnifiedIntentScore>, NoScore = no entry
    config,        \* defaultConfig of this process
    now,           \* the wall clock (new Date()), in days
    last,          \* the most recent call: its arguments and what it returned
    computed,      \* history: what calculateUnifiedScore last returned per company
    reported,      \* history: day of the last spike report per company with
                   \* no signal appended since, -1 if none
    enrichmentStore, \* Map<string, EnrichmentData>, NoEnrichment = no entry
    stored,        \* history: the snapshot last stored for each
                   \* <<entityType, entityId, source>> since the last clear
    tokenStore,    \* Map<string, OAuthTokens>, NoTokens = no entry
    pending,       \* the asynchronous calls in flight: what each one awaits
    revoked        \* history: the portals whose revokeTokens has completed
                   \* with no exchangeCodeForTokens completed since

vars == <<signalStore, storeKeys, scoreCache, config, now, last,
          computed, reported, enrichmentStore, stored, tokenStore, pending,
          revoked>>

\* The state of the HubSpot service and of the calls that await it.
serviceVars == <<tokenStore, pending, revoked>>

\* The state of the scoring module.
scoringVars == <<signalStore, storeKeys, scoreCache, config, computed, reported>>

\* The absent value (null / undefined / no map entry).
NoScore == [absent |-> TRUE]

(* ----------------------------- helpers --------------------------------- *)

Min(a, b) == IF a <= b THEN a ELSE b

\* Math.round of the non-negative fraction n/d (d > 0): floor(n/d + 1/2).
RoundFrac(n, d) == (2 * n + d) \div (2 * d)

\* The elements of a sequence.
Range(seq) == {seq[i] : i \in 1..Len(seq)}

\* Number of signals in the whole ledger.
RECURSIVE TotalSignals(_, _)
TotalSignals(store, cs) ==
    IF cs = {} THEN 0
    ELSE LET c == CHOOSE x \in cs : TRUE
         IN Len(store[c]) + TotalSignals(store, cs \ {c})


\* Stable sort of a sequence of <<key, value>> pairs, descending by key
\* (Array.prototype.sort with (a, b) => b.key - a.key).
RECURSIVE InsertDesc(_, _)
InsertDesc(sorted, p) ==
    IF sorted = <<>> THEN <<p>>
    ELSE IF Head(sorted)[1] >= p[1]
         THEN <<Head(sorted)>> \o InsertDesc(Tail(sorted), p)
         ELSE <<p>> \o sorted

RECURSIVE SortDesc(_)
SortDesc(pairs) ==
    IF pairs = <<>> THEN <<>>
    ELSE InsertDesc(SortDesc(SubSeq(pairs, 1, Len(pairs) - 1)), pairs[Len(pairs)])

\* The distinct values of a sequence, in order of first occurrence (the
\* iteration order of a Map or Set filled from it).
RECURSIVE Distinct(_)
Distinct(seq) ==
    IF seq = <<>> THEN <<>>
    ELSE LET front == Distinct(SubSeq(seq, 1, Len(seq) - 1))
             x == seq[Len(seq)]
         IN IF x \in Range(front) THEN front ELSE Append(front, x)

(* ------------------------- scoring engine ------------------------------ *)

\* previousScore?.overallScore when nothing is cached.
Undefined == -1

OverallOf(previousScore) ==
    IF previousScore = NoScore THEN Undefined ELSE previousScore.overallScore

\* The decay factor of a signal at time t, in units of 1/decayDays.
calculateDecay(signalDate, decayDays, t) ==
    LET daysDiff == t - signalDate
    IN IF daysDiff <= 0 THEN decayDays
       ELSE IF daysDiff >= decayDays THEN 0
       ELSE decayDays - daysDiff

RECURSIVE WeightedSum(_, _, _)
WeightedSum(signals, decayDays, t) ==
    IF signals = <<>> THEN 0
    ELSE Head(signals).signalStrength
             * calculateDecay(Head(signals).timestamp, decayDays, t)
         + WeightedSum(Tail(signals), decayDays, t)

\* TotalWeight that counts every signal in full, whatever its age.
TotalWeightUndecayed(signals, decayDays, t) == Len(signals) * decayDays

RECURSIVE TotalWeight(_, _, _)
TotalWeight(signals, decayDays, t) ==
    IF signals = <<>> THEN 0
    ELSE calculateDecay(Head(signals).timestamp, decayDays, t)
         + TotalWeight(Tail(signals), decayDays, t)

\* Math.min(100, weightedSum / totalWeight), 0 when totalWeight is 0, as
\* the fraction <<num, den>>.
CappedQuotient(weightedSum, totalWeight) ==
    IF totalWeight = 0 THEN <<0, 1>>
    ELSE IF weightedSum > 100 * totalWeight THEN <<100, 1>>
    ELSE <<weightedSum, totalWeight>>

\* The score of one source's signals, as the fraction <<num, den>>.
calculateSourceScore(signals, decayDays, t) ==
    IF Len(signals) = 0 THEN <<0, 1>>
    ELSE CappedQuotient(WeightedSum(signals, decayDays, t),
                        TotalWeight(signals, decayDays, t))

RECURSIVE StrengthSum(_)
StrengthSum(signals) ==
    IF signals = <<>> THEN 0
    ELSE Head(signals).signalStrength + StrengthSum(Tail(signals))

\* The topics of the signals, in order of first occurrence (the keys of
\* topicMap).
TopicNames(signals) ==
    Distinct([i \in 1..Len(signals) |-> signals[i].topic])

\* The TopicScore of a topic, from the signals that carry it.
TopicScoreOf(topic, mine) ==
    [topic |-> topic,
     score |-> Min(100, RoundFrac(StrengthSum(mine), Len(mine))),
     sources |-> Distinct([j \in 1..Len(mine) |-> mine[j].source])]

\* topics, before the sort.
TopicScores(signals, names) ==
    [i \in 1..Len(names) |->
        TopicScoreOf(names[i], SelectSeq(signals, LAMBDA s : s.topic = names[i]))]

\* Each topic paired with its sort key.
ByScore(topics) == [i \in 1..Len(topics) |-> <<topics[i].score, topics[i]>>]

\* The values of a sequence of <<key, value>> pairs.
Values(pairs) == [i \in 1..Len(pairs) |-> pairs[i][2]]

\* Array.prototype.slice(0, n)
Slice(seq, n) == SubSeq(seq, 1, Min(n, Len(seq)))

calculateTopTopics(signals) ==
    Values(Slice(SortDesc(ByScore(TopicScores(signals, TopicNames(signals)))), 5))

\* determineTrend with the sign of the first bound lost.
determineTrendSignSlip(currentScore, previousScore) ==
    IF previousScore = Undefined THEN "stable"
    ELSE LET diff == currentScore - previousScore
         IN IF diff > -5 THEN "increasing"
            ELSE IF diff < -5 THEN "decreasing"
            ELSE "stable"

\* determineTrend with both bounds off by one.
determineTrendInclusive(currentScore, previousScore) ==
    IF previousScore = Undefined THEN "stable"
    ELSE LET diff == currentScore - previousScore
         IN IF diff >= 5 THEN "increasing"
            ELSE IF diff <= -5 THEN "decreasing"
            ELSE "stable"

determineTrend(currentScore, previousScore) ==
    IF previousScore = Undefined THEN "stable"
    ELSE LET diff == currentScore - previousScore
         IN IF diff > 5 THEN "increasing"
            ELSE IF diff < -5 THEN "decreasing"
            ELSE "stable"

\* checkForSpike with the comparison turned round.
checkForSpikeReversed(currentScore, previousScore, thresholdPercent) ==
    IF previousScore = Undefined \/ previousScore = 0 THEN FALSE
    ELSE (currentScore - previousScore) * 100 <= thresholdPercent * previousScore

\* checkForSpike with a strict comparison.
checkForSpikeStrict(currentScore, previousScore, thresholdPercent) ==
    IF previousScore = Undefined \/ previousScore = 0 THEN FALSE
    ELSE (currentScore - previousScore) * 100 > thresholdPercent * previousScore

\* checkForSpike on the size of the change, whatever its direction.
checkForSpikeEitherWay(currentScore, previousScore, thresholdPercent) ==
    IF previousScore = Undefined \/ previousScore = 0 THEN FALSE
    ELSE \/ (currentScore - previousScore) * 100 >= thresholdPercent * previousScore
         \/ (previousScore - currentScore) * 100 >= thresholdPercent * previousScore

\* ((current - previous) / previous) * 100 >= thresholdPercent, previous > 0.
checkForSpike(currentScore, previousScore, thresholdPercent) ==
    IF previousScore = Undefined \/ previousScore = 0 THEN FALSE
    ELSE (currentScore - previousScore) * 100 >= thresholdPercent * previousScore

getSignalsForCompany(store, companyId) == store[companyId]

\* The weighted sum divided by the weights of the sources that have signals.
OverallScorePresentSources(apolloScore, zoomInfoScore, cfg) ==
    LET weights == (IF apolloScore[1] > 0 THEN cfg.apolloWeight ELSE 0)
                     + (IF zoomInfoScore[1] > 0 THEN cfg.zoomInfoWeight ELSE 0)
    IN IF weights = 0 THEN 0
       ELSE RoundFrac(apolloScore[1] * cfg.apolloWeight * zoomInfoScore[2]
                        + zoomInfoScore[1] * cfg.zoomInfoWeight * apolloScore[2],
                      weights * apolloScore[2] * zoomInfoScore[2])

\* Math.round(apolloScore * apolloWeight + zoomInfoScore * zoomInfoWeight)
OverallScore(apolloScore, zoomInfoScore, cfg) ==
    RoundFrac(apolloScore[1] * cfg.apolloWeight * zoomInfoScore[2]
                + zoomInfoScore[1] * cfg.zoomInfoWeight * apolloScore[2],
              100 * apolloScore[2] * zoomInfoScore[2])

\* The early return of calculateUnifiedScore left out.
HasNoSignalsNever(signals) == FALSE

\* signals.length === 0
HasNoSignals(signals) == Len(signals) = 0

\* scoreCache.set that keeps an entry the cache already holds.
scoreCacheSetIfAbsent(cache, companyId, score) ==
    IF cache[companyId] = NoScore THEN [cache EXCEPT ![companyId] = score]
    ELSE cache

\* scoreCache.set(companyId, score)
scoreCacheSet(cache, companyId, score) == [cache EXCEPT ![companyId] = score]

\* The UnifiedIntentScore calculateUnifiedScore builds.
UnifiedScore(companyId, signals, apolloScore, zoomInfoScore, overallScore, previousOverall, cfg, t) ==
    [companyId |-> companyId,
     overallScore |-> overallScore,
     apolloScore |-> RoundFrac(apolloScore[1], apolloScore[2]),
     zoomInfoScore |-> RoundFrac(zoomInfoScore[1], zoomInfoScore[2]),
     topTopics |-> calculateTopTopics(signals),
     signalCount |-> Len(signals),
     lastUpdated |-> t,
     trend |-> determineTrend(overallScore, previousOverall),
     isSpike |-> checkForSpike(overallScore, previousOverall,
                               cfg.spikeThresholdPercent)]

\* The score of a company's signals against the cached previous score.
ScoreOfSources(companyId, signals, apolloScore, zoomInfoScore, previousScore, cfg, t) ==
    UnifiedScore(companyId, signals, apolloScore, zoomInfoScore,
                 OverallScore(apolloScore, zoomInfoScore, cfg),
                 OverallOf(previousScore), cfg, t)

\* The score of a company's signals.
ScoreOfSignals(companyId, signals, previousScore, cfg, t) ==
    ScoreOfSources(companyId, signals,
                   calculateSourceScore(
                       SelectSeq(signals, LAMBDA s : s.source = "apollo"),
                       cfg.decayDays, t),
                   calculateSourceScore(
                       SelectSeq(signals, LAMBDA s : s.source = "zoominfo"),
                       cfg.decayDays, t),
                   previousScore, cfg, t)

\* scoreCache.set(companyId, score); return score
Cached(cache, companyId, score) ==
    [score |-> score, cache |-> scoreCacheSet(cache, companyId, score)]

\* calculateUnifiedScore on the signals it fetched.
CalculateFrom(companyId, signals, cache, cfg, t) ==
    IF HasNoSignals(signals)
    THEN [score |-> NoScore, cache |-> cache]
    ELSE Cached(cache, companyId,
                ScoreOfSignals(companyId, signals, cache[companyId], cfg, t))

\* calculateUnifiedScore: the score it returns and the cache it leaves.
calculateUnifiedScore(companyId, store, cache, cfg, t) ==
    CalculateFrom(companyId, getSignalsForCompany(store, companyId), cache, cfg, t)

\* addIntentSignal that puts the signal in front (unshift for push).
addIntentSignalUnshift(store, signal) ==
    [store EXCEPT ![signal.companyId] = <<signal>> \o @]

\* addIntentSignal: the arrays and the key order it leaves.
addIntentSignal(store, signal) ==
    [store EXCEPT ![signal.companyId] = Append(@, signal)]

KeysAfterAdd(keys, signal) ==
    IF signal.companyId \in Range(keys) THEN keys
    ELSE Append(keys, signal.companyId)

RECURSIVE addIntentSignals(_, _)
addIntentSignals(store, signals) ==
    IF signals = <<>> THEN store
    ELSE addIntentSignals(addIntentSignal(store, Head(signals)), Tail(signals))

RECURSIVE KeysAfterAddAll(_, _)
KeysAfterAddAll(keys, signals) ==
    IF signals = <<>> THEN keys
    ELSE KeysAfterAddAll(KeysAfterAdd(keys, Head(signals)), Tail(signals))

\* Math.round(percentageIncrease) of a reported spike.
PercentageIncrease(previousScore, currentScore) ==
    IF previousScore.overallScore > 0
    THEN RoundFrac((currentScore.overallScore - previousScore.overallScore) * 100,
                   previousScore.overallScore)
    ELSE 0

\* The test of detectAwarenessSpikes without its isSpike conjunct.
SpikeReportedAnyBaseline(previousScore, currentScoreObj) ==
    currentScoreObj # NoScore /\ previousScore # NoScore

\* Whether detectAwarenessSpikes pushes a record for this company.
SpikeReported(previousScore, currentScoreObj) ==
    currentScoreObj # NoScore /\ currentScoreObj.isSpike /\ previousScore # NoScore

\* The AwarenessSpike pushed for a company.
SpikeRecord(companyId, previousScore, currentScoreObj, t) ==
    [companyId |-> companyId,
     previousScore |-> previousScore.overallScore,
     currentScore |-> currentScoreObj.overallScore,
     percentageIncrease |-> PercentageIncrease(previousScore, currentScoreObj),
     triggeringTopics |->
         [i \in 1..Len(currentScoreObj.topTopics) |->
             currentScoreObj.topTopics[i].topic],
     timestamp |-> t]

\* A sequence of the score, empty when it is null.
NonNull(score) == IF score # NoScore THEN <<score>> ELSE <<>>

\* One iteration of the loop of detectAwarenessSpikes, put before what the
\* later iterations give.
DetectIteration(companyId, previousScore, currentScoreObj, rest, t) ==
    [spikes |-> IF SpikeReported(previousScore, currentScoreObj)
                THEN <<SpikeRecord(companyId, previousScore, currentScoreObj, t)>>
                         \o rest.spikes
                ELSE rest.spikes,
     cache |-> rest.cache,
     returned |-> NonNull(currentScoreObj) \o rest.returned]

RECURSIVE detectAwarenessSpikes(_, _, _, _, _)

\* The loop body with the result r of its calculateUnifiedScore call.
DetectVisit(keys, store, previousScore, r, cfg, t) ==
    DetectIteration(Head(keys), previousScore, r.score,
                    detectAwarenessSpikes(Tail(keys), store, r.cache, cfg, t), t)

\* The loop of detectAwarenessSpikes over the keys still to visit: the
\* records it pushes, the cache it leaves and the scores computed on the way.
detectAwarenessSpikes(keys, store, cache, cfg, t) ==
    IF keys = <<>> THEN [spikes |-> <<>>, cache |-> cache, returned |-> <<>>]
    ELSE DetectVisit(keys, store, cache[Head(keys)],
                     calculateUnifiedScore(Head(keys), store, cache, cfg, t),
                     cfg, t)

\* A score put before the scores and the cache of the calls after it.
ScoresCons(score, rest) ==
    [scores |-> NonNull(score) \o rest.scores, cache |-> rest.cache]

RECURSIVE ScoresOf(_, _, _, _, _)

ScoresVisit(companyIds, store, r, cfg, t) ==
    ScoresCons(r.score, ScoresOf(Tail(companyIds), store, r.cache, cfg, t))

\* calculateUnifiedScore for each id in turn, nulls dropped: the loop of
\* getAllUnifiedScores, and
\* companyIds.map((id) => calculateUnifiedScore(id)).filter((s) => s !== null)
ScoresOf(companyIds, store, cache, cfg, t) ==
    IF companyIds = <<>> THEN [scores |-> <<>>, cache |-> cache]
    ELSE ScoresVisit(companyIds, store,
                     calculateUnifiedScore(Head(companyIds), store, cache, cfg, t),
                     cfg, t)

\* Each score paired with its sort key.
ByOverall(scores) ==
    [i \in 1..Len(scores) |-> <<scores[i].overallScore, scores[i]>>]

\* scores.sort((a, b) => b.overallScore - a.overallScore)
SortedScores(r) ==
    [scores |-> Values(SortDesc(ByOverall(r.scores))), cache |-> r.cache]

getAllUnifiedScores(keys, store, cache, cfg, t) ==
    SortedScores(ScoresOf(keys, store, cache, cfg, t))

(* ----------------------------- routes ---------------------------------- *)

\* signals.map((s) => ({...s, source, timestamp: s.timestamp || now}))
WithSource(source, payload, t) ==
    [i \in 1..Len(payload) |->
        [source |-> source,
         companyId |-> payload[i].companyId,
         topic |-> payload[i].topic,
         signalStrength |-> payload[i].signalStrength,
         timestamp |-> t]]

\* [...new Set(signals.map((s) => s.companyId))]
CompanyIds(signals) ==
    Distinct([i \in 1..Len(signals) |-> signals[i].companyId])

\* What an intent route leaves in the engine and goes on to send.
RouteResult(signals, store, keys, sc, det, portalId) ==
    [store |-> store, keys |-> keys, cache |-> det.cache,
     signals |-> signals, scores |-> sc.scores, spikes |-> det.spikes,
     returned |-> sc.scores \o det.returned,
     events |-> IF portalId THEN det.spikes ELSE <<>>,
     response |-> [signalsProcessed |-> Len(signals),
                   companiesUpdated |-> Len(sc.scores),
                   spikesDetected |-> Len(det.spikes)]]

\* The route after the scores of the request's companies are computed.
RouteDetect(signals, store, keys, sc, portalId, cfg, t) ==
    RouteResult(signals, store, keys, sc,
                detectAwarenessSpikes(keys, store, sc.cache, cfg, t), portalId)

\* The route after addIntentSignals.
RouteScore(signals, store, keys, cache, portalId, cfg, t) ==
    RouteDetect(signals, store, keys,
                ScoresOf(CompanyIds(signals), store, cache, cfg, t),
                portalId, cfg, t)

\* The route on the signals it built.
RouteAdd(signals, portalId, keys, store, cache, cfg, t) ==
    RouteScore(signals, addIntentSignals(store, signals),
               KeysAfterAddAll(keys, signals), cache, portalId, cfg, t)

\* POST /sync/apollo/intent and POST /sync/zoominfo/intent, up to the first
\* await: what the handler leaves in the engine and what it goes on to send.
IntentRoute(source, payload, portalId, keys, store, cache, cfg, t) ==
    RouteAdd(WithSource(source, payload, t), portalId, keys, store, cache, cfg, t)

(* ------------------------ enrichment tracker --------------------------- *)
(* A JavaScript value is a record tagged with its kind: undefined, null,   *)
(* number, string, array (v a sequence of values) or object (v a function  *)
(* from keys to values).  An attribute map (Record<string, unknown>) is a  *)
(* function from the keys it owns to values.                               *)

Undef == [type |-> "undefined"]

Null == [type |-> "null"]

Num(n) == [type |-> "number", v |-> n]

Str(str) == [type |-> "string", v |-> str]

Arr(elements) == [type |-> "array", v |-> elements]

Obj(properties) == [type |-> "object", v |-> properties]

\* typeof x
TypeOf(x) ==
    IF x.type \in {"null", "array", "object"} THEN "object" ELSE x.type

\* a === b: equal primitives; two arrays or objects built by different
\* callers are never the same reference.
StrictEquals(a, b) ==
    /\ a.type = b.type
    /\ a.type \in {"undefined", "null", "number", "string"}
    /\ a = b

\* The property names of array indices.
IndexKeys == <<"0", "1">>

\* Object.keys(x) of an array or object.
ObjectKeys(x) ==
    IF x.type = "array" THEN {IndexKeys[i] : i \in 1..Len(x.v)}
    ELSE DOMAIN x.v

\* x[key] of an array or object.
Prop(x, key) ==
    IF x.type = "array"
    THEN IF \E i \in 1..Len(x.v) : IndexKeys[i] = key
         THEN x.v[CHOOSE i \in 1..Len(x.v) : IndexKeys[i] = key]
         ELSE Undef
    ELSE IF key \in DOMAIN x.v THEN x.v[key] ELSE Undef

\* data[field] of an attribute map.
Get(data, field) == IF field \in DOMAIN data THEN data[field] ELSE Undef

\* The attribute map without entries.
EmptyMap == [key \in {} |-> Undef]

\* The absent value of the enrichment module (null / undefined / no entry).
NoEnrichment == [absent |-> TRUE]

trackableFields ==
    <<"employeeCount", "annualRevenue", "industry", "description",
      "linkedinUrl", "website", "phone", "address", "city", "state",
      "country", "postalCode", "foundedYear", "technologies",
      "fundingTotal", "lastFundingDate", "title", "department", "seniority">>

\* getEnrichmentKey that leaves the entity type out of the key.
getEnrichmentKeyUntyped(entityType, entityId, source) ==
    "company" \o ":" \o entityId \o ":" \o source

getEnrichmentKey(entityType, entityId, source) ==
    entityType \o ":" \o entityId \o ":" \o source

RECURSIVE deepEqual(_, _)
deepEqual(a, b) ==
    IF StrictEquals(a, b) THEN TRUE
    ELSE IF a.type = "undefined" /\ b.type = "undefined" THEN TRUE
    ELSE IF a.type = "null" /\ b.type = "null" THEN TRUE
    ELSE IF a.type = "undefined" \/ b.type = "undefined" THEN FALSE
    ELSE IF a.type = "null" \/ b.type = "null" THEN FALSE
    ELSE IF TypeOf(a) # TypeOf(b) THEN FALSE
    ELSE IF a.type = "array" /\ b.type = "array"
    THEN IF Len(a.v) # Len(b.v) THEN FALSE
         ELSE \A idx \in 1..Len(a.v) : deepEqual(a.v[idx], b.v[idx])
    ELSE IF TypeOf(a) = "object" /\ TypeOf(b) = "object"
    THEN IF Cardinality(ObjectKeys(a)) # Cardinality(ObjectKeys(b)) THEN FALSE
         ELSE \A key \in ObjectKeys(a) : deepEqual(Prop(a, key), Prop(b, key))
    ELSE FALSE

\* The trackable fields detectChanges pushes a change for.
ChangedFields(oldData, newData) ==
    SelectSeq(trackableFields,
              LAMBDA field : ~deepEqual(Get(oldData, field), Get(newData, field)))

\* changes.push({field, oldValue, newValue}) for each of the fields.
FieldChanges(fields, oldData, newData) ==
    [i \in 1..Len(fields) |->
        [field |-> fields[i],
         oldValue |-> Get(oldData, fields[i]),
         newValue |-> Get(newData, fields[i])]]

detectChanges(oldData, newData) ==
    FieldChanges(ChangedFields(oldData, newData), oldData, newData)

\* enrichmentStore.set that keeps an entry the store already holds.
enrichmentStoreSetIfAbsent(store, key, enrichment) ==
    IF store[key] = NoEnrichment THEN [store EXCEPT ![key] = enrichment]
    ELSE store

\* enrichmentStore.set(key, enrichment)
enrichmentStoreSet(store, key, enrichment) ==
    [store EXCEPT ![key] = enrichment]

\* The EnrichmentDelta storeEnrichmentData returns for the changes found.
DeltaOf(enrichment, changes, t) ==
    IF Len(changes) = 0 THEN NoEnrichment
    ELSE [entityType |-> enrichment.entityType,
          entityId |-> enrichment.entityId,
          hubspotId |-> Get(enrichment.data, "hubspotId"),
          source |-> enrichment.source,
          changes |-> changes,
          timestamp |-> t]

\* !existing
IsFirst(existing) == existing = NoEnrichment

\* storeEnrichmentData on the key it built: the store it leaves and the
\* delta it returns.
StoreUnder(store, key, existing, enrichment, t) ==
    IF IsFirst(existing)
    THEN [store |-> enrichmentStoreSet(store, key, enrichment),
          delta |-> NoEnrichment]
    ELSE [store |-> enrichmentStoreSet(store, key, enrichment),
          delta |-> DeltaOf(enrichment,
                            detectChanges(existing.data, enrichment.data), t)]

StoreAt(store, key, enrichment, t) ==
    StoreUnder(store, key, store[key], enrichment, t)

storeEnrichmentData(store, enrichment, t) ==
    StoreAt(store,
            getEnrichmentKey(enrichment.entityType, enrichment.entityId,
                             enrichment.source),
            enrichment, t)

\* enrichmentStore.get(key) || null; a key never stored has no entry.
getEnrichmentData(store, entityType, entityId, source) ==
    IF getEnrichmentKey(entityType, entityId, source) \in DOMAIN store
    THEN store[getEnrichmentKey(entityType, entityId, source)]
    ELSE NoEnrichment

\* if (data) results.push(data)
Present(data) == IF data # NoEnrichment THEN <<data>> ELSE <<>>

getAllEnrichmentForEntity(store, entityType, entityId) ==
    Present(getEnrichmentData(store, entityType, entityId, "apollo"))
        \o Present(getEnrichmentData(store, entityType, entityId, "zoominfo"))

\* allData.find((d) => d.source === source)
FindSource(allData, source) ==
    SelectSeq(allData, LAMBDA d : d.source = source)

\* Object.assign(merged, secondaryData.data), if secondaryData was found.
Assigned(found) == IF found = <<>> THEN EmptyMap ELSE found[1].data

\* A test that takes the empty string for a populated value.
PopulatedOrEmpty(value) ==
    /\ value.type # "undefined"
    /\ value.type # "null"

\* value !== undefined && value !== null && value !== ''
Populated(value) ==
    /\ value.type # "undefined"
    /\ value.type # "null"
    /\ ~(value.type = "string" /\ value = Str(""))

\* The entries of primaryData.data that are written over merged.
Overriding(found) ==
    IF found = <<>> THEN {}
    ELSE {key \in DOMAIN found[1].data : Populated(found[1].data[key])}

\* merged after the loop over the entries of primaryData.data.
Overlay(merged, found, keys) ==
    [key \in (DOMAIN merged) \cup keys |->
        IF key \in keys THEN found[1].data[key] ELSE merged[key]]

\* Overlay that writes every entry of primaryData.data.
MergeFromAll(allData, prioritySource, secondarySource) ==
    Overlay(Assigned(FindSource(allData, secondarySource)),
            FindSource(allData, prioritySource),
            IF FindSource(allData, prioritySource) = <<>> THEN {}
            ELSE DOMAIN FindSource(allData, prioritySource)[1].data)

MergeFrom(allData, prioritySource, secondarySource) ==
    Overlay(Assigned(FindSource(allData, secondarySource)),
            FindSource(allData, prioritySource),
            Overriding(FindSource(allData, prioritySource)))

\* prioritySource === 'zoominfo' ? 'apollo' : 'zoominfo'
SecondaryOf(prioritySource) ==
    IF prioritySource = "zoominfo" THEN "apollo" ELSE "zoominfo"

MergeAll(allData, prioritySource) ==
    IF Len(allData) = 0 THEN EmptyMap
    ELSE MergeFrom(allData, prioritySource, SecondaryOf(prioritySource))

mergeEnrichmentData(store, entityType, entityId, prioritySource) ==
    MergeAll(getAllEnrichmentForEntity(store, entityType, entityId),
             prioritySource)

\* DeltasCons that puts the delta behind the deltas of the calls after it.
DeltasConsBehind(delta, rest) ==
    [store |-> rest.store, deltas |-> rest.deltas \o Present(delta)]

\* A delta put before the deltas and the store of the calls after it.
DeltasCons(delta, rest) ==
    [store |-> rest.store, deltas |-> Present(delta) \o rest.deltas]

RECURSIVE processBatchEnrichment(_, _, _)

BatchVisit(r, enrichments, t) ==
    DeltasCons(r.delta, processBatchEnrichment(r.store, Tail(enrichments), t))

\* The loop of processBatchEnrichment: the store it leaves and the deltas
\* it returns.
processBatchEnrichment(store, enrichments, t) ==
    IF enrichments = <<>> THEN [store |-> store, deltas |-> <<>>]
    ELSE BatchVisit(storeEnrichmentData(store, Head(enrichments), t),
                    enrichments, t)

\* The keys of the snapshots a caller can store.
EnrichmentKeys ==
    {getEnrichmentKey(entityType, entityId, source) :
        entityType \in EntityTypes, entityId \in EntityIds, source \in Sources}

\* enrichmentStore after construction and after clear().
EmptyEnrichmentStore == [key \in EnrichmentKeys |-> NoEnrichment]

(* --------------------------- HubSpot service --------------------------- *)
(* hubspotService: the token store, and the asynchronous functions as the   *)
(* steps between their awaits.  An asynchronous call in flight is a record   *)
(* of what it awaits and of the locals it resumes with.                      *)

Portals == {"p1", "p2"}

\* Identities of the asynchronous calls that can be in flight at a time.
Calls == 1..MaxCalls

\* What the token endpoint grants: the token pair and expiresIn, in minutes.
Grants == {"g1", "g2"}

ExpiresIn == {3, 30}

MinutesPerDay == 1440

\* Refresh if token expires in less than 5 minutes
RefreshMargin == 5

\* tokenStore.get(portalId) of a portal without entry.
NoTokens == [absent |-> TRUE]

\* tokenStore after construction.
NoPortals == [portalId \in Portals |-> NoTokens]

\* A call identity that is not in flight.
Idle == [kind |-> "idle"]

NoCalls == [call \in Calls |-> Idle]

\* The OAuthTokens built from a token response at time t (in days).
OAuthTokens(portalId, grant, expiresIn, t) ==
    [portalId |-> portalId, accessToken |-> grant, refreshToken |-> grant,
     expiresAt |-> t * MinutesPerDay + expiresIn]

\* tokenStore.set(portalId, tokens)
tokenStoreSet(store, portalId, tokens) == [store EXCEPT ![portalId] = tokens]

\* tokenStore.delete(portalId)
tokenStoreDelete(store, portalId) == [store EXCEPT ![portalId] = NoTokens]

\* isAuthenticated(portalId): tokenStore.has(portalId)
isAuthenticated(store, portalId) == store[portalId] # NoTokens

\* tokens.expiresAt - Date.now() < 5 * 60 * 1000
Expiring(tokens, t) == tokens.expiresAt - t * MinutesPerDay < RefreshMargin

(* ------------------------- history variables --------------------------- *)

\* What a snapshot is stored for.
Subjects == EntityTypes \X EntityIds \X Sources

NothingStored == [subject \in Subjects |-> NoEnrichment]

\* The snapshots last stored once the given ones are stored in turn.
RECURSIVE StoredAfter(_, _)
StoredAfter(hist, enrichments) ==
    IF enrichments = <<>> THEN hist
    ELSE StoredAfter(
             [hist EXCEPT ![<<Head(enrichments).entityType,
                              Head(enrichments).entityId,
                              Head(enrichments).source>>] = Head(enrichments)],
             Tail(enrichments))

\* What calculateUnifiedScore last returned for each company.
RECURSIVE ComputedAfter(_, _)
ComputedAfter(hist, returned) ==
    IF returned = <<>> THEN hist
    ELSE ComputedAfter([hist EXCEPT ![Head(returned).companyId] = Head(returned)],
                       Tail(returned))

\* The day of each company's last spike report, forgotten when a signal is
\* appended for it.
ReportedAfter(hist, appended, spikes, t) ==
    [c \in Companies |->
        IF \E i \in 1..Len(spikes) : spikes[i].companyId = c THEN t
        ELSE IF c \in appended THEN -1
        ELSE hist[c]]

(* ------------------------------ actions -------------------------------- *)

Payloads ==
    [companyId : Companies, topic : Topics, signalStrength : Strengths]

Signals(t) ==
    [source : Sources, companyId : Companies, topic : Topics,
     signalStrength : Strengths, timestamp : {t}]

Batches ==
    UNION {[1..n -> Payloads] : n \in 0..MaxBatch}

Init ==
    /\ signalStore = [c \in Companies |-> <<>>]
    /\ storeKeys = <<>>
    /\ scoreCache = [c \in Companies |-> NoScore]
    /\ config = DefaultConfig
    /\ now = 0
    /\ last = [op |-> "init"]
    /\ computed = [c \in Companies |-> NoScore]
    /\ reported = [c \in Companies |-> -1]
    /\ enrichmentStore = EmptyEnrichmentStore
    /\ stored = NothingStored
    /\ tokenStore = NoPortals
    /\ pending = NoCalls
    /\ revoked = {}

\* addIntentSignal(signal), called on the engine directly.
AddIntentSignal(signal) ==
    /\ TotalSignals(signalStore, Companies) < MaxSignals
    /\ signalStore' = addIntentSignal(signalStore, signal)
    /\ storeKeys' = KeysAfterAdd(storeKeys, signal)
    /\ last' = [op |-> "addIntentSignal", signal |-> signal]
    /\ reported' = ReportedAfter(reported, {signal.companyId}, <<>>, now)
    /\ UNCHANGED <<scoreCache, config, now, computed, enrichmentStore, stored, serviceVars>>

\* calculateUnifiedScore(companyId): GET /sync/scores/:companyId.
ComputeScoreWith(companyId, r) ==
    /\ scoreCache' = r.cache
    /\ last' = [op |-> "computeScore", id |-> companyId,
                previous |-> scoreCache[companyId], score |-> r.score]
    /\ computed' = ComputedAfter(computed, NonNull(r.score))
    /\ UNCHANGED <<signalStore, storeKeys, config, now, reported, enrichmentStore, stored, serviceVars>>

ComputeScore(companyId) ==
    ComputeScoreWith(companyId,
        calculateUnifiedScore(companyId, signalStore, scoreCache, config, now))

\* getAllUnifiedScores(): GET /sync/scores.
AllScoresWith(r) ==
    /\ scoreCache' = r.cache
    /\ last' = [op |-> "allScores", scores |-> r.scores]
    /\ computed' = ComputedAfter(computed, r.scores)
    /\ UNCHANGED <<signalStore, storeKeys, config, now, reported, enrichmentStore, stored, serviceVars>>

AllScores ==
    AllScoresWith(
        getAllUnifiedScores(storeKeys, signalStore, scoreCache, config, now))

\* detectAwarenessSpikes(): GET /sync/spikes.
DetectSpikesWith(r) ==
    /\ scoreCache' = r.cache
    /\ last' = [op |-> "detectSpikes", spikes |-> r.spikes]
    /\ computed' = ComputedAfter(computed, r.returned)
    /\ reported' = ReportedAfter(reported, {}, r.spikes, now)
    /\ UNCHANGED <<signalStore, storeKeys, config, now, enrichmentStore, stored, serviceVars>>

DetectSpikes ==
    DetectSpikesWith(
        detectAwarenessSpikes(storeKeys, signalStore, scoreCache, config, now))

\* POST /sync/<source>/intent with a well-formed signals array.
IngestWith(source, portalId, r) ==
    /\ signalStore' = r.store
    /\ storeKeys' = r.keys
    /\ scoreCache' = r.cache
    /\ last' = [op |-> "ingest", source |-> source, signals |-> r.signals,
                portalId |-> portalId, scores |-> r.scores,
                spikes |-> r.spikes, events |-> r.events,
                response |-> r.response]
    /\ computed' = ComputedAfter(computed, r.returned)
    /\ reported' = ReportedAfter(reported, Range(CompanyIds(r.signals)),
                                 r.spikes, now)
    /\ UNCHANGED <<config, now, enrichmentStore, stored, serviceVars>>

Ingest(source, payload, portalId) ==
    /\ TotalSignals(signalStore, Companies) + Len(payload) <= MaxSignals
    /\ IngestWith(source, portalId,
                 IntentRoute(source, payload, portalId, storeKeys, signalStore,
                            scoreCache, config, now))

\* getSignalsForCompany(companyId)
GetSignalsForCompany(companyId) ==
    /\ last' = [op |-> "getSignalsForCompany", id |-> companyId,
                signals |-> getSignalsForCompany(signalStore, companyId)]
    /\ UNCHANGED <<scoringVars, now, enrichmentStore, stored, serviceVars>>

\* A reset that leaves the score cache as it is.
ClearAllSignalsKeepingCache ==
    /\ signalStore' = [c \in Companies |-> <<>>]
    /\ storeKeys' = <<>>
    /\ last' = [op |-> "clearAllSignals", keys |-> storeKeys,
                cached |-> {c \in Companies : scoreCache[c] # NoScore}]
    /\ computed' = [c \in Companies |-> NoScore]
    /\ reported' = [c \in Companies |-> -1]
    /\ UNCHANGED <<scoreCache, config, now, enrichmentStore, stored, serviceVars>>

\* clearAllSignals(); last records the keys and the cache entries the maps
\* held when they were cleared.
ClearAllSignals ==
    /\ signalStore' = [c \in Companies |-> <<>>]
    /\ storeKeys' = <<>>
    /\ scoreCache' = [c \in Companies |-> NoScore]
    /\ last' = [op |-> "clearAllSignals", keys |-> storeKeys,
                cached |-> {c \in Companies : scoreCache[c] # NoScore}]
    /\ computed' = [c \in Companies |-> NoScore]
    /\ reported' = [c \in Companies |-> -1]
    /\ UNCHANGED <<config, now, enrichmentStore, stored, serviceVars>>

\* The wall clock advances between two calls.
Tick ==
    /\ now < MaxTicks * TickDays
    /\ now' = now + TickDays
    /\ last' = [op |-> "tick"]
    /\ UNCHANGED <<scoringVars, enrichmentStore, stored, serviceVars>>

Next ==
    \/ \E signal \in Signals(now) : AddIntentSignal(signal)
    \/ \E companyId \in Companies : GetSignalsForCompany(companyId)
    \/ \E companyId \in Companies : ComputeScore(companyId)
    \/ AllScores
    \/ DetectSpikes
    \/ \E source \in Sources, payload \in Batches, portalId \in BOOLEAN :
          Ingest(source, payload, portalId)
    \/ ClearAllSignals
    \/ Tick

Spec == Init /\ [][Next]_vars

(* ----------------------- query specification --------------------------- *)
(* A ledger and a baseline are drawn, then only queries run.  A drawn      *)
(* state is one the engine reaches at day 0: addIntentSignals(the first    *)
(* k signals); getAllUnifiedScores(); addIntentSignals(the rest); after    *)
(* which the clock may have run past the decay window.                     *)

\* One company, many strengths.
ScoreAdds ==
    UNION {[1..n -> [source : Sources, companyId : {"c1"}, topic : Topics,
                     signalStrength : QueryStrengths, timestamp : {0}]]
           : n \in 0..MaxSignals}

\* Two companies, the strengths of the running engine.
DetectAdds ==
    UNION {[1..n -> [source : Sources, companyId : Companies, topic : Topics,
                     signalStrength : Strengths, timestamp : {0}]]
           : n \in 0..MaxQuerySignals}

EmptyStore == [c \in Companies |-> <<>>]

EmptyCache == [c \in Companies |-> NoScore]

QueryInit ==
    /\ config \in Configs
    /\ now \in {0, DefaultConfig.decayDays}
    /\ \E adds \in ScoreAdds \cup DetectAdds :
         \E k \in 0..Len(adds) :
            LET first == SubSeq(adds, 1, k)
                base == getAllUnifiedScores(KeysAfterAddAll(<<>>, first),
                                            addIntentSignals(EmptyStore, first),
                                            EmptyCache, config, 0)
            IN /\ signalStore = addIntentSignals(EmptyStore, adds)
               /\ storeKeys = KeysAfterAddAll(<<>>, adds)
               /\ scoreCache = base.cache
               /\ computed = base.cache
    /\ last = [op |-> "init"]
    /\ reported = [c \in Companies |-> -1]
    /\ enrichmentStore = EmptyEnrichmentStore
    /\ stored = NothingStored
    /\ tokenStore = NoPortals
    /\ pending = NoCalls
    /\ revoked = {}

QueryNext ==
    \/ \E companyId \in Companies : ComputeScore(companyId)
    \/ AllScores
    \/ DetectSpikes

SpecQuery == QueryInit /\ [][QueryNext]_vars

(* ----------------------- decay specification --------------------------- *)
(* A ledger of signals of several ages is drawn for one company (a caller  *)
(* of addIntentSignal chooses the timestamp), then only queries run.       *)

\* The days the drawn signals were observed on.
SignalDays == {0, TickDays, 2 * TickDays}

DecayAdds ==
    UNION {[1..n -> [source : Sources, companyId : {"c1"}, topic : Topics,
                     signalStrength : Strengths, timestamp : SignalDays]]
           : n \in 0..MaxQuerySignals}

DecayInit ==
    /\ config = DefaultConfig
    /\ now \in {2 * TickDays, 3 * TickDays}
    /\ \E adds \in DecayAdds :
          /\ signalStore = addIntentSignals(EmptyStore, adds)
          /\ storeKeys = KeysAfterAddAll(<<>>, adds)
    /\ scoreCache = EmptyCache
    /\ computed = EmptyCache
    /\ last = [op |-> "init"]
    /\ reported = [c \in Companies |-> -1]
    /\ enrichmentStore = EmptyEnrichmentStore
    /\ stored = NothingStored
    /\ tokenStore = NoPortals
    /\ pending = NoCalls
    /\ revoked = {}

SpecDecay == DecayInit /\ [][QueryNext]_vars

(* ------------------- enrichment specifications ------------------------- *)
(* The enrichment module keeps its own store and shares nothing with the   *)
(* scoring module, so its operations are explored on their own: once over  *)
(* several keys with few attribute maps, once over one entity with many.   *)

\* Snapshots of equal trackable fields (the first and the third), and of
\* different ones.
Datas ==
    {("employeeCount" :> Num(500)) @@ ("hubspotId" :> Str("h1")),
     ("employeeCount" :> Num(600)) @@ ("hubspotId" :> Str("h1")),
     ("employeeCount" :> Num(500)) @@ ("hubspotId" :> Str("h2"))}

\* The attribute maps of the examples of a merge.
ExampleA ==
    ("employeeCount" :> Num(500)) @@ ("industry" :> Str("SaaS"))
        @@ ("website" :> Str("a.example"))

ExampleB ==
    ("employeeCount" :> Num(600)) @@ ("annualRevenue" :> Num(1000000))

\* An attribute map of the given entries, absent ones left out.
MapOf(entries) ==
    [key \in {e[1] : e \in {x \in entries : x[2] # NoEnrichment}} |->
        (CHOOSE e \in entries : e[1] = key)[2]]

\* Attribute maps that leave out, null, blank, zero, populate or change a
\* field, hold an own property of value undefined, hold arrays and objects,
\* and differ in a field that is not tracked.
RichDatas ==
    {MapOf({<<"employeeCount", count>>, <<"industry", industry>>}) :
        count \in {NoEnrichment, Num(0), Num(500), Num(600)},
        industry \in {NoEnrichment, Null, Str(""), Str("SaaS")}}
    \cup {("technologies" :> tech) :
            tech \in {Arr(<<>>), Obj(EmptyMap), Arr(<<Str("aws")>>),
                      Obj("0" :> Str("aws"))}}
    \cup {("industry" :> Undef),
          ("employeeCount" :> Num(500)) @@ ("hubspotId" :> Str("h1")),
          ExampleA, ExampleB}

Enrichments(entityTypes, datas, t) ==
    [entityType : entityTypes, entityId : EntityIds, source : Sources,
     data : datas, timestamp : {t}]

EnrichBatches(t) ==
    UNION {[1..n -> Enrichments(EntityTypes, Datas, t)] : n \in 0..MaxEnrichBatch}

\* Number of snapshots a store holds.
Held(store) == Cardinality({key \in DOMAIN store : store[key] # NoEnrichment})

\* storeEnrichmentData(enrichment)
StoreEnrichmentDataWith(enrichment, r) ==
    /\ Held(r.store) <= MaxSnapshots
    /\ enrichmentStore' = r.store
    /\ last' = [op |-> "storeEnrichmentData", enrichment |-> enrichment,
                existing |-> getEnrichmentData(enrichmentStore,
                                 enrichment.entityType, enrichment.entityId,
                                 enrichment.source),
                delta |-> r.delta]
    /\ stored' = StoredAfter(stored, <<enrichment>>)
    /\ UNCHANGED <<scoringVars, now, serviceVars>>

StoreEnrichmentData(enrichment) ==
    StoreEnrichmentDataWith(enrichment,
        storeEnrichmentData(enrichmentStore, enrichment, now))

\* processBatchEnrichment(enrichments): POST /sync/<source>/enrichment.
ProcessBatchEnrichmentWith(enrichments, r) ==
    /\ Held(r.store) <= MaxSnapshots
    /\ enrichmentStore' = r.store
    /\ last' = [op |-> "processBatchEnrichment", enrichments |-> enrichments,
                deltas |-> r.deltas]
    /\ stored' = StoredAfter(stored, enrichments)
    /\ UNCHANGED <<scoringVars, now, serviceVars>>

ProcessBatchEnrichment(enrichments) ==
    ProcessBatchEnrichmentWith(enrichments,
        processBatchEnrichment(enrichmentStore, enrichments, now))

\* getEnrichmentData(entityType, entityId, source)
GetEnrichmentData(entityType, entityId, source) ==
    /\ last' = [op |-> "getEnrichmentData", entityType |-> entityType,
                entityId |-> entityId, source |-> source,
                data |-> getEnrichmentData(enrichmentStore, entityType,
                                           entityId, source)]
    /\ UNCHANGED <<scoringVars, now, enrichmentStore, stored, serviceVars>>

\* getAllEnrichmentForEntity(entityType, entityId)
GetAllEnrichmentForEntity(entityType, entityId) ==
    /\ last' = [op |-> "getAllEnrichmentForEntity", entityType |-> entityType,
                entityId |-> entityId,
                results |-> getAllEnrichmentForEntity(enrichmentStore,
                                                      entityType, entityId)]
    /\ UNCHANGED <<scoringVars, now, enrichmentStore, stored, serviceVars>>

\* The arguments a caller gives for prioritySource; "undefined" leaves it out.
Priorities == Sources \cup {"undefined"}

\* prioritySource: 'apollo' | 'zoominfo' = 'zoominfo'
PriorityOrDefault(prioritySource) ==
    IF prioritySource = "undefined" THEN "zoominfo" ELSE prioritySource

\* mergeEnrichmentData that removes what it merged from the store.
MergeEnrichmentDataConsuming(entityType, entityId, prioritySource) ==
    /\ last' = [op |-> "mergeEnrichmentData", entityType |-> entityType,
                entityId |-> entityId, prioritySource |-> prioritySource,
                merged |-> mergeEnrichmentData(enrichmentStore, entityType,
                               entityId, PriorityOrDefault(prioritySource))]
    /\ enrichmentStore' =
          [key \in DOMAIN enrichmentStore |->
              IF key \in {getEnrichmentKey(entityType, entityId, source) :
                             source \in Sources}
              THEN NoEnrichment ELSE enrichmentStore[key]]
    /\ UNCHANGED <<scoringVars, now, stored, serviceVars>>

\* mergeEnrichmentData(entityType, entityId, prioritySource):
\* GET /sync/enrichment/merged/:entityType/:entityId.
MergeEnrichmentData(entityType, entityId, prioritySource) ==
    /\ last' = [op |-> "mergeEnrichmentData", entityType |-> entityType,
                entityId |-> entityId, prioritySource |-> prioritySource,
                merged |-> mergeEnrichmentData(enrichmentStore, entityType,
                               entityId, PriorityOrDefault(prioritySource))]
    /\ UNCHANGED <<scoringVars, now, enrichmentStore, stored, serviceVars>>

\* clearAllEnrichmentData()
ClearAllEnrichmentData ==
    /\ enrichmentStore' = EmptyEnrichmentStore
    /\ last' = [op |-> "clearAllEnrichmentData", held |-> Held(enrichmentStore)]
    /\ stored' = NothingStored
    /\ UNCHANGED <<scoringVars, now, serviceVars>>

EnrichNext ==
    \/ \E enrichment \in Enrichments(EntityTypes, Datas, now) :
          StoreEnrichmentData(enrichment)
    \/ \E enrichments \in EnrichBatches(now) : ProcessBatchEnrichment(enrichments)
    \/ \E entityType \in EntityTypes, entityId \in EntityIds, source \in Sources :
          GetEnrichmentData(entityType, entityId, source)
    \/ \E entityType \in EntityTypes, entityId \in EntityIds :
          GetAllEnrichmentForEntity(entityType, entityId)
    \/ \E entityType \in EntityTypes, entityId \in EntityIds,
          prioritySource \in Priorities :
          MergeEnrichmentData(entityType, entityId, prioritySource)
    \/ ClearAllEnrichmentData

SpecEnrich == Init /\ [][EnrichNext]_vars

\* One company, many attribute maps.
AttributesNext ==
    \/ \E enrichment \in Enrichments({"company"}, RichDatas, now) :
          StoreEnrichmentData(enrichment)
    \/ \E entityId \in EntityIds, prioritySource \in Priorities :
          MergeEnrichmentData("company", entityId, prioritySource)

SpecAttributes == Init /\ [][AttributesNext]_vars

(* ------------------------- token specification ------------------------- *)
(* The OAuth functions of hubspotService called by concurrent requests: a   *)
(* function that awaits the remote endpoint is one step up to its await and  *)
(* one step when the awaited call settles.                                   *)

\* exchangeCodeForTokens(code) up to its first await.
ExchangeBegin(call) ==
    /\ pending[call] = Idle
    /\ pending' = [pending EXCEPT ![call] = [kind |-> "exchange"]]
    /\ last' = [op |-> "await", fn |-> "exchangeCodeForTokens", call |-> call]
    /\ UNCHANGED <<scoringVars, now, enrichmentStore, stored, tokenStore, revoked>>

\* exchangeCodeForTokens after both awaited responses: the portal is the
\* hubId of the access token.
ExchangeEnd(call, portalId, grant, expiresIn) ==
    /\ pending[call].kind = "exchange"
    /\ tokenStore' = tokenStoreSet(tokenStore, portalId,
                                   OAuthTokens(portalId, grant, expiresIn, now))
    /\ pending' = [pending EXCEPT ![call] = Idle]
    /\ revoked' = revoked \ {portalId}
    /\ last' = [op |-> "exchangeCodeForTokens", call |-> call,
                portalId |-> portalId, tokens |-> tokenStore'[portalId]]
    /\ UNCHANGED <<scoringVars, now, enrichmentStore, stored>>

\* refreshAccessToken(portalId) up to its await; it throws without tokens.
RefreshBegin(call, portalId, fn) ==
    /\ pending[call] = Idle
    /\ IF tokenStore[portalId] = NoTokens
       THEN /\ last' = [op |-> fn, call |-> call, portalId |-> portalId,
                        error |-> "No tokens found for portal"]
            /\ UNCHANGED pending
       ELSE /\ pending' = [pending EXCEPT ![call] =
                              [kind |-> "refresh", portalId |-> portalId,
                               refreshToken |-> tokenStore[portalId].refreshToken]]
            /\ last' = [op |-> "await", fn |-> fn, call |-> call]
    /\ UNCHANGED <<scoringVars, now, enrichmentStore, stored, tokenStore, revoked>>

RefreshAccessToken(call, portalId) ==
    RefreshBegin(call, portalId, "refreshAccessToken")

\* refreshAccessToken after the awaited token response.
RefreshEnd(call, grant, expiresIn) ==
    /\ pending[call].kind = "refresh"
    /\ tokenStore' = tokenStoreSet(tokenStore, pending[call].portalId,
                          OAuthTokens(pending[call].portalId, grant, expiresIn, now))
    /\ pending' = [pending EXCEPT ![call] = Idle]
    /\ last' = [op |-> "refreshAccessToken", call |-> call,
                portalId |-> pending[call].portalId,
                tokens |-> tokenStore'[pending[call].portalId]]
    /\ UNCHANGED <<scoringVars, now, enrichmentStore, stored, revoked>>

\* The awaited call of an exchange or a refresh is rejected: the function
\* throws.
Rejected(call) ==
    /\ pending[call].kind \in {"exchange", "refresh"}
    /\ pending' = [pending EXCEPT ![call] = Idle]
    /\ last' = [op |-> "rejected", call |-> call, kind |-> pending[call].kind]
    /\ UNCHANGED <<scoringVars, now, enrichmentStore, stored, tokenStore, revoked>>

\* getValidAccessToken(portalId): it returns the stored access token, or
\* goes on into refreshAccessToken when the token is about to expire.
GetValidAccessToken(call, portalId) ==
    IF tokenStore[portalId] # NoTokens /\ ~Expiring(tokenStore[portalId], now)
    THEN /\ pending[call] = Idle
         /\ last' = [op |-> "getValidAccessToken", call |-> call,
                     portalId |-> portalId,
                     accessToken |-> tokenStore[portalId].accessToken]
         /\ UNCHANGED <<scoringVars, now, enrichmentStore, stored, serviceVars>>
    ELSE RefreshBegin(call, portalId, "getValidAccessToken")

\* isAuthenticated(portalId): GET /oauth/status/:portalId.
IsAuthenticated(portalId) ==
    /\ last' = [op |-> "isAuthenticated", portalId |-> portalId,
                authenticated |-> isAuthenticated(tokenStore, portalId)]
    /\ UNCHANGED <<scoringVars, now, enrichmentStore, stored, serviceVars>>

\* revokeTokens(portalId) up to its await; without tokens it is complete.
RevokeBegin(call, portalId) ==
    /\ pending[call] = Idle
    /\ IF tokenStore[portalId] = NoTokens
       THEN /\ last' = [op |-> "revokeTokens", call |-> call, portalId |-> portalId]
            /\ revoked' = revoked \cup {portalId}
            /\ UNCHANGED pending
       ELSE /\ pending' = [pending EXCEPT ![call] =
                              [kind |-> "revoke", portalId |-> portalId,
                               refreshToken |-> tokenStore[portalId].refreshToken]]
            /\ last' = [op |-> "await", fn |-> "revokeTokens", call |-> call]
            /\ UNCHANGED revoked
    /\ UNCHANGED <<scoringVars, now, enrichmentStore, stored, tokenStore>>

\* revokeTokens after the awaited archive call, resolved or rejected.
RevokeEnd(call) ==
    /\ pending[call].kind = "revoke"
    /\ tokenStore' = tokenStoreDelete(tokenStore, pending[call].portalId)
    /\ pending' = [pending EXCEPT ![call] = Idle]
    /\ revoked' = revoked \cup {pending[call].portalId}
    /\ last' = [op |-> "revokeTokens", call |-> call,
                portalId |-> pending[call].portalId]
    /\ UNCHANGED <<scoringVars, now, enrichmentStore, stored>>

TokensNext ==
    \/ \E call \in Calls : ExchangeBegin(call)
    \/ \E call \in Calls, portalId \in Portals, grant \in Grants,
          expiresIn \in ExpiresIn : ExchangeEnd(call, portalId, grant, expiresIn)
    \/ \E call \in Calls, portalId \in Portals : RefreshAccessToken(call, portalId)
    \/ \E call \in Calls, grant \in Grants, expiresIn \in ExpiresIn :
          RefreshEnd(call, grant, expiresIn)
    \/ \E call \in Calls : Rejected(call)
    \/ \E call \in Calls, portalId \in Portals : GetValidAccessToken(call, portalId)
    \/ \E portalId \in Portals : IsAuthenticated(portalId)
    \/ \E call \in Calls, portalId \in Portals : RevokeBegin(call, portalId)
    \/ \E call \in Calls : RevokeEnd(call)
    \/ Tick

SpecTokens == Init /\ [][TokensNext]_vars

(* ------------------------ handler specification ------------------------ *)
(* Intent handlers run concurrently with each other and with the score      *)
(* queries.  A handler runs without interruption up to an await; while it   *)
(* awaits a HubSpot call, any other handler may run.                        *)

\* The HubSpot calls a handler has still to await: one timeline event per
\* spike, then one company update per score, when the request names a portal.
Awaiting(events, scores) ==
    IF events = <<>> /\ scores = <<>> THEN Idle
    ELSE [kind |-> "intent", events |-> events, scores |-> scores]

\* The handler resumes with scores it computed before it awaited and writes
\* them to the cache.
HandlerResumeWritingBack(call) ==
    /\ pending[call].kind = "intent"
    /\ pending' = [pending EXCEPT ![call] = Idle]
    /\ scoreCache' = [c \in Companies |->
          IF \E i \in 1..Len(pending[call].scores) :
                pending[call].scores[i].companyId = c
          THEN (CHOOSE score \in Range(pending[call].scores) :
                    score.companyId = c)
          ELSE scoreCache[c]]
    /\ last' = [op |-> "resume", call |-> call]
    /\ UNCHANGED <<signalStore, storeKeys, config, now, computed, reported,
                   enrichmentStore, stored, tokenStore, revoked>>

\* The route up to its first await, or up to its response when it has
\* nothing to send to HubSpot.
HandleIntentWith(call, source, portalId, r) ==
    /\ signalStore' = r.store
    /\ storeKeys' = r.keys
    /\ scoreCache' = r.cache
    /\ pending' = [pending EXCEPT ![call] =
          Awaiting(r.events, IF portalId THEN r.scores ELSE <<>>)]
    /\ last' = [op |-> "ingest", call |-> call, source |-> source,
                signals |-> r.signals, portalId |-> portalId,
                scores |-> r.scores, spikes |-> r.spikes, events |-> r.events,
                response |-> r.response]
    /\ computed' = ComputedAfter(computed, r.returned)
    /\ reported' = ReportedAfter(reported, Range(CompanyIds(r.signals)),
                                 r.spikes, now)
    /\ UNCHANGED <<config, now, enrichmentStore, stored, tokenStore, revoked>>

\* POST /sync/<source>/intent arrives.
HandleIntent(call, source, payload, portalId) ==
    /\ pending[call] = Idle
    /\ TotalSignals(signalStore, Companies) + Len(payload) <= MaxSignals
    /\ HandleIntentWith(call, source, portalId,
            IntentRoute(source, payload, portalId, storeKeys, signalStore,
                        scoreCache, config, now))

\* An awaited createAwarenessSpikeEvent or updateCompanyIntentScore settles
\* (a failure is caught and logged): the handler goes on to its next await,
\* or to its response after the last.
HandlerResume(call) ==
    /\ pending[call].kind = "intent"
    /\ pending' = [pending EXCEPT ![call] =
          IF pending[call].events # <<>>
          THEN Awaiting(Tail(pending[call].events), pending[call].scores)
          ELSE Awaiting(<<>>, Tail(pending[call].scores))]
    /\ last' = [op |-> "resume", call |-> call]
    /\ UNCHANGED <<scoringVars, now, enrichmentStore, stored, tokenStore, revoked>>

HandlersNext ==
    \/ \E call \in Calls, source \in Sources, payload \in Batches,
          portalId \in BOOLEAN : HandleIntent(call, source, payload, portalId)
    \/ \E call \in Calls : HandlerResume(call)
    \/ \E companyId \in Companies : ComputeScore(companyId)
    \/ AllScores
    \/ DetectSpikes
    \/ Tick

SpecHandlers == Init /\ [][HandlersNext]_vars

(* ------------------------ boundary specification ----------------------- *)
(* The ingest routes called with request bodies of any shape.  The maps of  *)
(* this process can also hold the key a record without companyId or         *)
(* entityId is filed under.                                                 *)

\* The Map key undefined, and the text `${undefined}` of a template literal.
UndefinedKey == "undefined"

LedgerKeys == Companies \cup {UndefinedKey}

\* The elements of a signals array: records with and without companyId.
IntentElements ==
    {("companyId" :> "c1") @@ ("topic" :> "Cloud") @@ ("signalStrength" :> 80),
     ("topic" :> "Cloud") @@ ("signalStrength" :> 80)}

\* The elements of an enrichments array: records with and without entityId.
EnrichmentElements ==
    {("entityType" :> "company") @@ ("entityId" :> "e1")
        @@ ("data" :> ("employeeCount" :> Num(500))),
     ("entityType" :> "company") @@ ("data" :> ("employeeCount" :> Num(500)))}

\* The values of req.body.signals and req.body.enrichments: missing, a
\* string, an object, or an array of the given elements.
Bodies(elements) ==
    {Undef, Str("c1"), Obj(EmptyMap)}
    \cup {Arr(array) : array \in UNION {[1..n -> elements] : n \in 0..MaxBatch}}

\* s.companyId / e.entityId of an element that may lack it.
KeyOf(element, field) ==
    IF field \in DOMAIN element THEN element[field] ELSE UndefinedKey

\* The signals array as the records the route maps over.
PayloadOf(array) ==
    [i \in 1..Len(array) |->
        [companyId |-> KeyOf(array[i], "companyId"),
         topic |-> array[i].topic,
         signalStrength |-> array[i].signalStrength]]

\* enrichments.map((e) => ({...e, source, timestamp: e.timestamp || now}))
EnrichmentsOf(source, array, t) ==
    [i \in 1..Len(array) |->
        [entityType |-> array[i].entityType,
         entityId |-> KeyOf(array[i], "entityId"),
         source |-> source,
         data |-> array[i].data,
         timestamp |-> t]]

\* !signals || !Array.isArray(signals)
NotArray(value) == value.type # "array"

BoundaryInit ==
    /\ signalStore = [c \in LedgerKeys |-> <<>>]
    /\ storeKeys = <<>>
    /\ scoreCache = [c \in LedgerKeys |-> NoScore]
    /\ config = DefaultConfig
    /\ now = 0
    /\ last = [op |-> "init"]
    /\ computed = EmptyCache
    /\ reported = [c \in Companies |-> -1]
    /\ enrichmentStore =
          [key \in {getEnrichmentKey(entityType, entityId, source) :
                       entityType \in EntityTypes,
                       entityId \in EntityIds \cup {UndefinedKey},
                       source \in Sources} |-> NoEnrichment]
    /\ stored = NothingStored
    /\ tokenStore = NoPortals
    /\ pending = NoCalls
    /\ revoked = {}

\* The route with a signals array, up to its response.
PostIntentWith(source, signals, r) ==
    /\ signalStore' = r.store
    /\ storeKeys' = r.keys
    /\ scoreCache' = r.cache
    /\ last' = [op |-> "postIntent", source |-> source, payload |-> signals,
                status |-> 200, response |-> r.response]
    /\ UNCHANGED <<config, now, computed, reported, enrichmentStore, stored,
                   serviceVars>>

\* POST /apollo/intent and /zoominfo/intent with any body.
PostIntent(source, signals) ==
    IF NotArray(signals)
    THEN /\ last' = [op |-> "postIntent", source |-> source, payload |-> signals,
                     status |-> 400, response |-> "signals array is required"]
         /\ UNCHANGED <<scoringVars, now, enrichmentStore, stored, serviceVars>>
    ELSE /\ TotalSignals(signalStore, LedgerKeys) + Len(signals.v) <= MaxSignals
         /\ PostIntentWith(source, signals,
                IntentRoute(source, PayloadOf(signals.v), FALSE, storeKeys,
                            signalStore, scoreCache, config, now))

\* The route with an enrichments array, up to its response.
PostEnrichmentWith(source, enrichments, r) ==
    /\ enrichmentStore' = r.store
    /\ last' = [op |-> "postEnrichment", source |-> source,
                payload |-> enrichments, status |-> 200,
                response |-> [enrichmentsProcessed |-> Len(enrichments.v),
                              deltasDetected |-> Len(r.deltas),
                              deltas |-> r.deltas]]
    /\ UNCHANGED <<scoringVars, now, stored, serviceVars>>

\* POST /apollo/enrichment and /zoominfo/enrichment with any body.
PostEnrichment(source, enrichments) ==
    IF NotArray(enrichments)
    THEN /\ last' = [op |-> "postEnrichment", source |-> source,
                     payload |-> enrichments, status |-> 400,
                     response |-> "enrichments array is required"]
         /\ UNCHANGED <<scoringVars, now, enrichmentStore, stored, serviceVars>>
    ELSE PostEnrichmentWith(source, enrichments,
            processBatchEnrichment(enrichmentStore,
                EnrichmentsOf(source, enrichments.v, now), now))

BoundaryNext ==
    \/ \E source \in Sources, signals \in Bodies(IntentElements) :
          PostIntent(source, signals)
    \/ \E source \in Sources, enrichments \in Bodies(EnrichmentElements) :
          PostEnrichment(source, enrichments)

SpecBoundary == BoundaryInit /\ [][BoundaryNext]_vars

(* -------------------------- reset specification ------------------------- *)
(* The scoring engine and the enrichment tracker of one process, with both  *)
(* resets; the clock stands still.                                          *)

ResetNext ==
    \/ \E signal \in Signals(now) : AddIntentSignal(signal)
    \/ \E companyId \in Companies : ComputeScore(companyId)
    \/ AllScores
    \/ DetectSpikes
    \/ ClearAllSignals
    \/ \E enrichment \in Enrichments({"company"}, Datas, now) :
          StoreEnrichmentData(enrichment)
    \/ ClearAllEnrichmentData

SpecReset == Init /\ [][ResetNext]_vars

(* --------------------------- rule evaluator ---------------------------- *)
(* icpPersonaScoring: a JavaScript string is the sequence of its            *)
(* characters, so that toLowerCase and includes are computed; weights are   *)
(* in hundredths.                                                           *)

UpperCase == <<"A", "B", "C", "D", "E", "F", "G", "H", "I", "J", "K", "L", "M",
               "N", "O", "P", "Q", "R", "S", "T", "U", "V", "W", "X", "Y", "Z">>

LowerCase == <<"a", "b", "c", "d", "e", "f", "g", "h", "i", "j", "k", "l", "m",
               "n", "o", "p", "q", "r", "s", "t", "u", "v", "w", "x", "y", "z">>

\* One character of String.prototype.toLowerCase.
LowerChar(c) ==
    IF \E i \in 1..26 : UpperCase[i] = c
    THEN LowerCase[CHOOSE i \in 1..26 : UpperCase[i] = c]
    ELSE c

\* chars.toLowerCase()
toLowerCase(chars) == [i \in 1..Len(chars) |-> LowerChar(chars[i])]

\* chars.includes(part)
includes(chars, part) ==
    \E i \in 0..(Len(chars) - Len(part)) :
        \A j \in 1..Len(part) : chars[i + j] = part[j]

\* lhs || rhs
OrElse(lhs, rhs) ==
    IF \/ lhs.type \in {"undefined", "null"}
       \/ lhs = Num(0)
       \/ lhs = Str(<<>>)
    THEN rhs ELSE lhs

defaultICPProfile ==
    [name |-> "Default B2B SaaS ICP",
     criteria |-> <<
        [name |-> "Employee Count", field |-> "employeeCount", weight |-> 25,
         operator |-> "range", value |-> Null,
         minValue |-> Num(50), maxValue |-> Num(5000)],
        [name |-> "Industry", field |-> "industry", weight |-> 25,
         operator |-> "in",
         value |-> Arr(<<Str(<<"T", "e", "c", "h", "n", "o", "l", "o", "g", "y">>),
                       Str(<<"S", "o", "f", "t", "w", "a", "r", "e">>),
                       Str(<<"F", "i", "n", "a", "n", "c", "i", "a", "l", " ", "S", "e", "r", "v", "i", "c", "e", "s">>),
                       Str(<<"H", "e", "a", "l", "t", "h", "c", "a", "r", "e">>)>>),
         minValue |-> Undef, maxValue |-> Undef],
        [name |-> "Revenue", field |-> "annualRevenue", weight |-> 30,
         operator |-> "range", value |-> Null,
         minValue |-> Num(5000000), maxValue |-> Num(500000000)],
        [name |-> "Has Website", field |-> "domain", weight |-> 10,
         operator |-> "contains", value |-> Str(<<".">>),
         minValue |-> Undef, maxValue |-> Undef],
        [name |-> "Country", field |-> "country", weight |-> 10,
         operator |-> "in",
         value |-> Arr(<<Str(<<"U", "n", "i", "t", "e", "d", " ", "S", "t", "a", "t", "e", "s">>),
                       Str(<<"C", "a", "n", "a", "d", "a">>),
                       Str(<<"U", "n", "i", "t", "e", "d", " ", "K", "i", "n", "g", "d", "o", "m">>),
                       Str(<<"A", "u", "s", "t", "r", "a", "l", "i", "a">>)>>),
         minValue |-> Undef, maxValue |-> Undef]>>]

defaultPersonaProfiles ==
    <<[name |-> "Decision Maker",
      attributes |-> <<
         [name |-> "Title Level", field |-> "title", weight |-> 50,
          operator |-> "contains",
          values |-> <<<<"C", "E", "O">>,
                      <<"C", "T", "O">>,
                      <<"C", "F", "O">>,
                      <<"V", "P">>,
                      <<"D", "i", "r", "e", "c", "t", "o", "r">>,
                      <<"H", "e", "a", "d", " ", "o", "f">>>>],
         [name |-> "Department", field |-> "department", weight |-> 30,
          operator |-> "in",
          values |-> <<<<"E", "x", "e", "c", "u", "t", "i", "v", "e">>,
                      <<"S", "a", "l", "e", "s">>,
                      <<"M", "a", "r", "k", "e", "t", "i", "n", "g">>,
                      <<"O", "p", "e", "r", "a", "t", "i", "o", "n", "s">>>>],
         [name |-> "Seniority", field |-> "seniority", weight |-> 20,
          operator |-> "in",
          values |-> <<<<"C", "-", "L", "e", "v", "e", "l">>,
                      <<"V", "P">>,
                      <<"D", "i", "r", "e", "c", "t", "o", "r">>>>]>>],
     [name |-> "Technical Evaluator",
      attributes |-> <<
         [name |-> "Title Level", field |-> "title", weight |-> 40,
          operator |-> "contains",
          values |-> <<<<"E", "n", "g", "i", "n", "e", "e", "r">>,
                      <<"D", "e", "v", "e", "l", "o", "p", "e", "r">>,
                      <<"A", "r", "c", "h", "i", "t", "e", "c", "t">>,
                      <<"T", "e", "c", "h", "n", "i", "c", "a", "l">>>>],
         [name |-> "Department", field |-> "department", weight |-> 40,
          operator |-> "in",
          values |-> <<<<"E", "n", "g", "i", "n", "e", "e", "r", "i", "n", "g">>,
                      <<"I", "T">>,
                      <<"T", "e", "c", "h", "n", "o", "l", "o", "g", "y">>,
                      <<"P", "r", "o", "d", "u", "c", "t">>>>],
         [name |-> "Seniority", field |-> "seniority", weight |-> 20,
          operator |-> "in",
          values |-> <<<<"S", "e", "n", "i", "o", "r">>,
                      <<"L", "e", "a", "d">>,
                      <<"P", "r", "i", "n", "c", "i", "p", "a", "l">>,
                      <<"S", "t", "a", "f", "f">>>>]>>],
     [name |-> "End User",
      attributes |-> <<
         [name |-> "Title Level", field |-> "title", weight |-> 30,
          operator |-> "contains",
          values |-> <<<<"M", "a", "n", "a", "g", "e", "r">>,
                      <<"S", "p", "e", "c", "i", "a", "l", "i", "s", "t">>,
                      <<"A", "n", "a", "l", "y", "s", "t">>,
                      <<"C", "o", "o", "r", "d", "i", "n", "a", "t", "o", "r">>>>],
         [name |-> "Department", field |-> "department", weight |-> 50,
          operator |-> "in",
          values |-> <<<<"S", "a", "l", "e", "s">>,
                      <<"M", "a", "r", "k", "e", "t", "i", "n", "g">>,
                      <<"C", "u", "s", "t", "o", "m", "e", "r", " ", "S", "u", "c", "c", "e", "s", "s">>,
                      <<"S", "u", "p", "p", "o", "r", "t">>>>],
         [name |-> "Seniority", field |-> "seniority", weight |-> 20,
          operator |-> "in",
          values |-> <<<<"M", "a", "n", "a", "g", "e", "r">>,
                      <<"I", "n", "d", "i", "v", "i", "d", "u", "a", "l", " ", "C", "o", "n", "t", "r", "i", "b", "u", "t", "o", "r">>>>]>>]>>

\* value >= min: criterion.minValue ?? Number.MIN_SAFE_INTEGER
AtLeast(n, minValue) ==
    IF minValue.type \in {"undefined", "null"} THEN TRUE ELSE n >= minValue.v

\* value <= max: criterion.maxValue ?? Number.MAX_SAFE_INTEGER
AtMost(n, maxValue) ==
    IF maxValue.type \in {"undefined", "null"} THEN TRUE ELSE n <= maxValue.v

\* The callback of criterion.value.some in the 'in' case.
InCallback(value, v) ==
    IF v.type = "string" /\ value.type = "string"
    THEN toLowerCase(value.v) = toLowerCase(v.v)
    ELSE StrictEquals(value, v)

evaluateCriterion(value, criterion) ==
    IF value.type \in {"undefined", "null"} THEN FALSE
    ELSE CASE criterion.operator = "equals" ->
                StrictEquals(value, criterion.value)
           [] criterion.operator = "contains" ->
                /\ value.type = "string"
                /\ criterion.value.type = "string"
                /\ includes(toLowerCase(value.v), toLowerCase(criterion.value.v))
           [] criterion.operator = "range" ->
                /\ value.type = "number"
                /\ AtLeast(value.v, criterion.minValue)
                /\ AtMost(value.v, criterion.maxValue)
           [] criterion.operator = "in" ->
                /\ criterion.value.type = "array"
                /\ \E i \in 1..Len(criterion.value.v) :
                      InCallback(value, criterion.value.v[i])
           [] OTHER -> FALSE

\* Thresholds that exclude their own score.
determineTierExclusive(score) ==
    IF score > 80 THEN "A"
    ELSE IF score > 60 THEN "B"
    ELSE IF score > 40 THEN "C"
    ELSE "D"

determineTier(score) ==
    IF score >= 80 THEN "A"
    ELSE IF score >= 60 THEN "B"
    ELSE IF score >= 40 THEN "C"
    ELSE "D"

\* criterionResult of one iteration of the loop of calculateICPMatch.
CriterionResult(criterion, fieldValue, matched) ==
    [name |-> criterion.name, weight |-> criterion.weight, matched |-> matched,
     actualValue |-> fieldValue, expectedValue |-> criterion.value]

\* The locals of calculateICPMatch before its loop.
NoCriteria ==
    [totalWeight |-> 0, matchedWeight |-> 0,
     matchedCriteria |-> <<>>, unmatchedCriteria |-> <<>>]

\* One iteration of the loop of calculateICPMatch on its locals.
CriterionStep(acc, criterion, result) ==
    [totalWeight |-> acc.totalWeight + criterion.weight,
     matchedWeight |-> IF result.matched
                       THEN acc.matchedWeight + criterion.weight
                       ELSE acc.matchedWeight,
     matchedCriteria |-> IF result.matched
                         THEN Append(acc.matchedCriteria, result)
                         ELSE acc.matchedCriteria,
     unmatchedCriteria |-> IF result.matched
                           THEN acc.unmatchedCriteria
                           ELSE Append(acc.unmatchedCriteria, result)]

CriterionVisit(acc, criterion, fieldValue) ==
    CriterionStep(acc, criterion,
        CriterionResult(criterion, fieldValue,
                        evaluateCriterion(fieldValue, criterion)))

\* for (const criterion of profile.criteria)
RECURSIVE CriteriaLoop(_, _, _)
CriteriaLoop(companyData, criteria, acc) ==
    IF criteria = <<>> THEN acc
    ELSE CriteriaLoop(companyData, Tail(criteria),
             CriterionVisit(acc, Head(criteria),
                            Get(companyData, Head(criteria).field)))

\* A score that is cut off instead of rounded.
MatchScoreTruncated(matchedWeight, totalWeight) ==
    IF totalWeight > 0 THEN (100 * matchedWeight) \div totalWeight ELSE 0

\* totalWeight > 0 ? Math.round((matchedWeight / totalWeight) * 100) : 0
MatchScore(matchedWeight, totalWeight) ==
    IF totalWeight > 0 THEN RoundFrac(100 * matchedWeight, totalWeight) ELSE 0

ICPMatch(companyData, acc, matchScore) ==
    [companyId |-> OrElse(Get(companyData, "id"), Str(<<"u", "n", "k", "n", "o", "w", "n">>)),
     hubspotCompanyId |-> Get(companyData, "hubspotId"),
     matchScore |-> matchScore,
     matchedCriteria |-> acc.matchedCriteria,
     unmatchedCriteria |-> acc.unmatchedCriteria,
     tier |-> determineTier(matchScore)]

ICPMatchOf(companyData, acc) ==
    ICPMatch(companyData, acc, MatchScore(acc.matchedWeight, acc.totalWeight))

calculateICPMatch(companyData, profile) ==
    ICPMatchOf(companyData, CriteriaLoop(companyData, profile.criteria, NoCriteria))

\* The callback of attr.values.some in the 'equals' and 'in' cases.
SameLowerCase(lowerValue, v) == lowerValue = toLowerCase(v)

evaluatePersonaAttribute(value, attr) ==
    IF value.type # "string" THEN FALSE
    ELSE CASE attr.operator = "equals" ->
                \E i \in 1..Len(attr.values) :
                    SameLowerCase(toLowerCase(value.v), attr.values[i])
           [] attr.operator = "contains" ->
                \E i \in 1..Len(attr.values) :
                    includes(toLowerCase(value.v), toLowerCase(attr.values[i]))
           [] attr.operator = "in" ->
                \E i \in 1..Len(attr.values) :
                    SameLowerCase(toLowerCase(value.v), attr.values[i])
           [] OTHER -> FALSE

\* The locals of evaluatePersonaProfile before its loop.
NoAttributes == [totalWeight |-> 0, matchedWeight |-> 0, attributes |-> <<>>]

\* One iteration of the loop of evaluatePersonaProfile on its locals.
AttributeStep(acc, attr, fieldValue, matched) ==
    [totalWeight |-> acc.totalWeight + attr.weight,
     matchedWeight |-> IF matched THEN acc.matchedWeight + attr.weight
                       ELSE acc.matchedWeight,
     attributes |-> Append(acc.attributes,
                       [name |-> attr.name,
                        value |-> OrElse(fieldValue, Str(<<>>)),
                        weight |-> attr.weight,
                        matched |-> matched])]

AttributeVisit(acc, attr, fieldValue) ==
    AttributeStep(acc, attr, fieldValue, evaluatePersonaAttribute(fieldValue, attr))

\* for (const attr of profile.attributes)
RECURSIVE AttributesLoop(_, _, _)
AttributesLoop(contactData, attributes, acc) ==
    IF attributes = <<>> THEN acc
    ELSE AttributesLoop(contactData, Tail(attributes),
             AttributeVisit(acc, Head(attributes),
                            Get(contactData, Head(attributes).field)))

ProfileScore(acc) ==
    [score |-> MatchScore(acc.matchedWeight, acc.totalWeight),
     attributes |-> acc.attributes]

evaluatePersonaProfile(contactData, profile) ==
    ProfileScore(AttributesLoop(contactData, profile.attributes, NoAttributes))

\* bestMatch before the loop of calculatePersonaScore (null).
NoMatch == [absent |-> TRUE]

\* A selection in which a later profile of equal score replaces an earlier.
BestOfLatest(bestMatch, profile, evaluated) ==
    IF bestMatch = NoMatch \/ evaluated.score >= bestMatch.score
    THEN [profile |-> profile, score |-> evaluated.score,
          attributes |-> evaluated.attributes]
    ELSE bestMatch

\* if (!bestMatch || score > bestMatch.score) bestMatch = {...}
BestOf(bestMatch, profile, evaluated) ==
    IF bestMatch = NoMatch \/ evaluated.score > bestMatch.score
    THEN [profile |-> profile, score |-> evaluated.score,
          attributes |-> evaluated.attributes]
    ELSE bestMatch

\* for (const profile of profiles)
RECURSIVE ProfilesLoop(_, _, _)
ProfilesLoop(contactData, profiles, bestMatch) ==
    IF profiles = <<>> THEN bestMatch
    ELSE ProfilesLoop(contactData, Tail(profiles),
             BestOf(bestMatch, Head(profiles),
                    evaluatePersonaProfile(contactData, Head(profiles))))

PersonaScore(contactData, bestMatch) ==
    [contactId |-> OrElse(Get(contactData, "id"), Str(<<"u", "n", "k", "n", "o", "w", "n">>)),
     hubspotContactId |-> Get(contactData, "hubspotId"),
     email |-> OrElse(Get(contactData, "email"), Str(<<>>)),
     personaType |-> IF bestMatch = NoMatch THEN "Unknown"
                     ELSE bestMatch.profile.name,
     matchScore |-> IF bestMatch = NoMatch THEN 0 ELSE bestMatch.score,
     attributes |-> IF bestMatch = NoMatch THEN <<>> ELSE bestMatch.attributes]

calculatePersonaScore(contactData, profiles) ==
    PersonaScore(contactData, ProfilesLoop(contactData, profiles, NoMatch))

(* ---------------------- rule evaluator specification -------------------- *)
(* calculateICPMatch and calculatePersonaScore are called with attribute     *)
(* maps and profiles drawn from the sets below.                              *)

\* Criterion weights of the drawn profiles, in hundredths.
Weights == {0, 30, 50}

\* The criteria of the drawn ICP profiles: one per operator, a range without
\* lower bound, and a value set that holds a number.
CriterionKinds ==
    {[name |-> "Industry", field |-> "industry", operator |-> "equals",
      value |-> Str(<<"S", "a", "a", "S">>), minValue |-> Undef, maxValue |-> Undef],
     [name |-> "Has Website", field |-> "domain", operator |-> "contains",
      value |-> Str(<<".", "I", "O">>), minValue |-> Undef, maxValue |-> Undef],
     [name |-> "Employee Count", field |-> "employeeCount", operator |-> "range",
      value |-> Null, minValue |-> Num(50), maxValue |-> Num(5000)],
     [name |-> "Small", field |-> "employeeCount", operator |-> "range",
      value |-> Null, minValue |-> Undef, maxValue |-> Num(50)],
     [name |-> "Country", field |-> "country", operator |-> "in",
      value |-> Arr(<<Str(<<"U", "S">>), Num(1)>>),
      minValue |-> Undef, maxValue |-> Undef]}

Weighted(kind, weight) ==
    [name |-> kind.name, field |-> kind.field, weight |-> weight,
     operator |-> kind.operator, value |-> kind.value,
     minValue |-> kind.minValue, maxValue |-> kind.maxValue]

Criteria == {Weighted(kind, weight) : kind \in CriterionKinds, weight \in Weights}

\* The profiles calculateICPMatch is called with: the default one, the one
\* without criteria, and those of one or two drawn criteria.
ICPProfiles ==
    {defaultICPProfile, [name |-> "Empty", criteria |-> <<>>]}
    \cup {[name |-> "One", criteria |-> <<c>>] : c \in Criteria}
    \cup {[name |-> "Two", criteria |-> <<c, d>>] : c \in Criteria, d \in Criteria}

\* The attribute map of the given fields that are present.
Record(fields) ==
    [key \in {f \in DOMAIN fields : fields[f] # NoEnrichment} |-> fields[key]]

\* Company attribute maps for the drawn criteria.
DrawnCompanies ==
    {Record([industry |-> i, domain |-> d, employeeCount |-> e, country |-> c]) :
        i \in {NoEnrichment, Null, Str(<<"S", "a", "a", "S">>), Str(<<"s", "a", "a", "s">>)},
        d \in {NoEnrichment, Str(<<"a", ".", "i", "o">>), Num(7)},
        e \in {NoEnrichment, Num(49), Num(50), Num(5001)},
        c \in {NoEnrichment, Str(<<"u", "s">>), Num(1)}}

\* Company attribute maps for the default profile.
DefaultCompanies ==
    {Record([employeeCount |-> e, industry |-> i, annualRevenue |-> r,
             domain |-> d, country |-> c]) :
        e \in {NoEnrichment, Num(500)},
        i \in {NoEnrichment, Str(<<"T", "e", "c", "h", "n", "o", "l", "o", "g", "y">>)},
        r \in {NoEnrichment, Num(50000000), Null},
        d \in {NoEnrichment, Str(<<"e", "x", "a", "m", "p", "l", "e", ".", "c", "o", "m">>)},
        c \in {NoEnrichment, Str(<<"U", "n", "i", "t", "e", "d", " ", "S", "t", "a", "t", "e", "s">>), Str(<<"F", "r", "a", "n", "c", "e">>)}}

CompanyDatas == DrawnCompanies \cup DefaultCompanies

\* The attributes of the drawn persona profiles.
AttributeKinds ==
    {[name |-> "Title", field |-> "title", operator |-> "equals",
      values |-> <<<<"C", "E", "O">>, <<"C", "T", "O">>>>],
     [name |-> "Title Level", field |-> "title", operator |-> "contains",
      values |-> <<<<"V", "P">>>>],
     [name |-> "Department", field |-> "department", operator |-> "in",
      values |-> <<<<"S", "a", "l", "e", "s">>>>]}

WeightedAttribute(kind, weight) ==
    [name |-> kind.name, field |-> kind.field, weight |-> weight,
     operator |-> kind.operator, values |-> kind.values]

Attributes ==
    {WeightedAttribute(kind, weight) : kind \in AttributeKinds, weight \in Weights}

\* Persona profiles of no or one drawn attribute.
ShortPersonas(name) ==
    {[name |-> name, attributes |-> <<>>]}
    \cup {[name |-> name, attributes |-> <<a>>] : a \in Attributes}

\* Persona profiles of up to two drawn attributes.
DrawnPersonas(name) ==
    ShortPersonas(name)
    \cup {[name |-> name, attributes |-> <<a, b>>] :
             a \in Attributes, b \in Attributes}

\* The profile lists calculatePersonaScore is called with: the default one,
\* the empty one, and those of one or two drawn profiles.
PersonaProfileLists ==
    {defaultPersonaProfiles, <<>>}
    \cup {<<p>> : p \in DrawnPersonas("First")}
    \cup {<<p, q>> : p \in DrawnPersonas("First"), q \in ShortPersonas("Second")}

ContactDatas ==
    {Record([title |-> t, department |-> d, seniority |-> s]) :
        t \in {NoEnrichment, Str(<<"C", "E", "O">>), Str(<<"c", "e", "o">>), Str(<<"V", "P", " ", "S", "a", "l", "e", "s">>), Str(<<"E", "n", "g", "i", "n", "e", "e", "r">>), Num(3)},
        d \in {NoEnrichment, Str(<<"S", "a", "l", "e", "s">>), Str(<<"e", "n", "g", "i", "n", "e", "e", "r", "i", "n", "g">>)},
        s \in {NoEnrichment, Str(<<"D", "i", "r", "e", "c", "t", "o", "r">>), Str(<<"S", "e", "n", "i", "o", "r">>)}}

\* A request is drawn: the arguments of one call.
RulesInit ==
    /\ signalStore = EmptyStore
    /\ storeKeys = <<>>
    /\ scoreCache = EmptyCache
    /\ config = DefaultConfig
    /\ now = 0
    /\ computed = EmptyCache
    /\ reported = [c \in Companies |-> -1]
    /\ enrichmentStore = EmptyEnrichmentStore
    /\ stored = NothingStored
    /\ tokenStore = NoPortals
    /\ pending = NoCalls
    /\ revoked = {}
    /\ \/ \E companyData \in CompanyDatas, profile \in ICPProfiles :
             last = [op |-> "request", fn |-> "calculateICPMatch",
                     companyData |-> companyData, profile |-> profile]
       \/ \E contactData \in ContactDatas, profiles \in PersonaProfileLists :
             last = [op |-> "request", fn |-> "calculatePersonaScore",
                     contactData |-> contactData, profiles |-> profiles]

\* calculateICPMatch(companyData, profile)
CalculateICPMatch ==
    /\ last.op = "request"
    /\ last.fn = "calculateICPMatch"
    /\ last' = [op |-> "calculateICPMatch", companyData |-> last.companyData,
                profile |-> last.profile,
                result |-> calculateICPMatch(last.companyData, last.profile)]
    /\ UNCHANGED <<scoringVars, now, enrichmentStore, stored, serviceVars>>

\* calculatePersonaScore(contactData, profiles)
CalculatePersonaScore ==
    /\ last.op = "request"
    /\ last.fn = "calculatePersonaScore"
    /\ last' = [op |-> "calculatePersonaScore", contactData |-> last.contactData,
                profiles |-> last.profiles,
                result |-> calculatePersonaScore(last.contactData, last.profiles)]
    /\ UNCHANGED <<scoringVars, now, enrichmentStore, stored, serviceVars>>

RulesNext ==
    \/ CalculateICPMatch
    \/ CalculatePersonaScore

SpecRules == RulesInit /\ [][RulesNext]_vars

(* ------------------------------ claims --------------------------------- *)

\* The call recorded in last is a computeScore that returned a score.
Scored == last.op = "computeScore" /\ last.score # NoScore

StableNoSpike(score) == score.trend = "stable" /\ ~score.isSpike

\* C1: when computeScore is called for an entity right after a computeScore
\* for the same entity that returned a score (nothing appended, the clock
\* not advanced, no other call in between), the second call returns trend
\* "stable" and isSpike false.
C1_SecondCallStable ==
    [][(Scored /\ last'.op = "computeScore" /\ last'.id = last.id)
          => (last'.score # NoScore /\ StableNoSpike(last'.score))]_vars

\* A second call in immediate succession, after a first call that reported
\* an increasing trend.
C1_Witness ==
    /\ Scored
    /\ last.previous # NoScore
    /\ last.previous.trend = "increasing"
    /\ last.previous.lastUpdated = now
    /\ last.previous.signalCount = last.score.signalCount
    /\ last.score.trend = "stable"

\* The baseline a computeScore call read was computed from the same signals:
\* none was appended for the entity in between.
NoAppendSinceBaseline ==
    /\ Scored
    /\ last.previous # NoScore
    /\ last.previous.signalCount = last.score.signalCount

\* C2 as claimed: every computeScore call that follows an earlier score
\* computation for the entity with no signal appended in between returns
\* "stable" and no spike, however much time elapsed between the calls.
C2_StableWithoutAppend ==
    NoAppendSinceBaseline => StableNoSpike(last.score)

\* C2 as amended: every computeScore call that follows an earlier score
\* computation for the entity, with no signal appended for it and the clock
\* not advanced in between, returns "stable" and no spike, whatever other
\* calls were made in between.
C2_StableWithoutAppendOrTick ==
    (NoAppendSinceBaseline /\ last.previous.lastUpdated = now)
        => StableNoSpike(last.score)

\* A repeated call at the same instant, after a call that reported a spike.
C2_Witness ==
    /\ NoAppendSinceBaseline
    /\ last.previous.lastUpdated = now
    /\ last.previous.isSpike
    /\ ~last.score.isSpike


\* The new overall score is a spike relative to the baseline: a baseline
\* exists, is positive, and the increase reaches the threshold.
IsSpikeOver(baseline, overallScore) ==
    /\ baseline # NoScore
    /\ baseline.overallScore > 0
    /\ (overallScore - baseline.overallScore) * 100
          >= config.spikeThresholdPercent * baseline.overallScore

\* The indices of the spike records of a company.
RecordsOf(spikes, c) == {i \in 1..Len(spikes) : spikes[i].companyId = c}

\* C3: detectSpikes returns exactly one record for each entity of the
\* ledger whose recomputed overall score is a spike relative to the score
\* cached before the call, with previousScore the score cached before the
\* call and currentScore the recomputed one, and no record for any other
\* entity.
C3_DetectReportsExactlySpikes ==
    [][last'.op = "detectSpikes" =>
         \A c \in Companies :
            LET recs == RecordsOf(last'.spikes, c)
            IN IF /\ c \in Range(storeKeys)
                  /\ IsSpikeOver(scoreCache[c], scoreCache'[c].overallScore)
               THEN /\ Cardinality(recs) = 1
                    /\ \A i \in recs :
                          /\ last'.spikes[i].previousScore = scoreCache[c].overallScore
                          /\ last'.spikes[i].currentScore = scoreCache'[c].overallScore
               ELSE recs = {}]_vars

\* A detectSpikes call that reported one of the two entities of the ledger.
C3_Witness ==
    /\ last.op = "detectSpikes"
    /\ Len(storeKeys) = 2
    /\ Len(last.spikes) = 1
    /\ last.spikes[1].currentScore = scoreCache[last.spikes[1].companyId].overallScore

\* C4 as claimed: once a detectSpikes call has reported an entity, no later
\* detectSpikes call reports it again unless a signal was appended for it in
\* between, however much time passes between the polls.
C4_NoRepeatedReport ==
    [][last'.op = "detectSpikes" =>
         \A c \in Companies : reported[c] >= 0 => RecordsOf(last'.spikes, c) = {}]_vars

\* C4 as amended: once a detectSpikes call has reported an entity, no later
\* detectSpikes call reports it again as long as no signal is appended for it
\* and the clock has not advanced since the report.
C4_NoRepeatedReportAtSameTime ==
    [][last'.op = "detectSpikes" =>
         \A c \in Companies : reported[c] = now => RecordsOf(last'.spikes, c) = {}]_vars

\* A poll that reports nothing, after a poll at the same instant reported an
\* entity.
C4_Witness ==
    /\ last.op = "detectSpikes"
    /\ last.spikes = <<>>
    /\ \E c \in Companies : reported[c] = now

\* The companies an ingest request appended signals for.
Ingested(call) == {call.signals[i].companyId : i \in 1..Len(call.signals)}

\* C5: when an ingest request appends signals that raise a company's overall
\* score by at least spikeThresholdPercent over its cached positive score,
\* the request reports a spike for that company: the response counts it, and
\* a timeline event is attempted for it when a portal is connected.
C5_IngestReportsSpike ==
    [][last'.op = "ingest" =>
         \A c \in Ingested(last') :
            IsSpikeOver(scoreCache[c], scoreCache'[c].overallScore) =>
               /\ RecordsOf(last'.spikes, c) # {}
               /\ last'.response.spikesDetected >= 1
               /\ last'.portalId => RecordsOf(last'.events, c) # {}]_vars


\* C6: in every score computeScore returns, isSpike is true exactly when a
\* score was cached for the entity before the call, that cached overall score
\* is positive, and (new - previous) / previous * 100 reaches
\* spikeThresholdPercent.
C6_SpikeIff ==
    Scored =>
       (last.score.isSpike <=>
           /\ last.previous # NoScore
           /\ last.previous.overallScore > 0
           /\ (last.score.overallScore - last.previous.overallScore) * 100
                 >= config.spikeThresholdPercent * last.previous.overallScore)

\* A spike whose increase is exactly the threshold.
C6_Witness ==
    /\ Scored
    /\ last.score.isSpike
    /\ last.previous # NoScore
    /\ (last.score.overallScore - last.previous.overallScore) * 100
          = config.spikeThresholdPercent * last.previous.overallScore

\* C7: in every score computeScore returns, trend is "stable" when no score
\* was cached for the entity before the call; otherwise it is "increasing"
\* when the new overall score exceeds the cached one by more than 5,
\* "decreasing" when it is more than 5 below it, and "stable" in between.
C7_TrendBands ==
    Scored =>
       IF last.previous = NoScore THEN last.score.trend = "stable"
       ELSE LET diff == last.score.overallScore - last.previous.overallScore
            IN /\ last.score.trend = "increasing" <=> diff > 5
               /\ last.score.trend = "decreasing" <=> diff < -5
               /\ last.score.trend = "stable" <=> (diff >= -5 /\ diff <= 5)

\* A score exactly 5 above its baseline, reported stable.
C7_Witness ==
    /\ Scored
    /\ last.previous # NoScore
    /\ last.score.overallScore - last.previous.overallScore = 5
    /\ last.score.trend = "stable"

\* The call recorded in last ran calculateUnifiedScore.
Computes ==
    last.op \in {"computeScore", "allScores", "detectSpikes", "ingest"}

\* C8: the Baseline Cache entry of every entity is the score the most recent
\* score computation for it returned since the last reset, absent if there
\* was none; and only a score computation or a reset changes the cache.
C8_CacheIsLastComputed ==
    /\ [](scoreCache = computed)
    /\ [][scoreCache' # scoreCache =>
            (Computes' \/ last'.op = "clearAllSignals")]_vars

\* A signal was appended for an entity after its score was cached.
C8_Witness ==
    /\ last.op = "addIntentSignal"
    /\ scoreCache[last.signal.companyId] # NoScore
    /\ scoreCache[last.signal.companyId].signalCount
          < Len(signalStore[last.signal.companyId])

\* C9: computeScore for an entity with no recorded signals returns absent
\* and changes neither the Signal Ledger nor the Baseline Cache; an entity
\* without signals appears in no allScores or detectSpikes result.
C9_UnknownEntityAbsent ==
    /\ [][(last'.op = "computeScore" /\ Len(signalStore[last'.id]) = 0) =>
            /\ last'.score = NoScore
            /\ UNCHANGED <<signalStore, storeKeys, scoreCache>>]_vars
    /\ [](last.op = "allScores" =>
            \A i \in 1..Len(last.scores) :
               Len(signalStore[last.scores[i].companyId]) > 0)
    /\ [](last.op = "detectSpikes" =>
            \A i \in 1..Len(last.spikes) :
               Len(signalStore[last.spikes[i].companyId]) > 0)

\* computeScore returned absent for one entity while another has signals.
C9_Witness ==
    /\ last.op = "computeScore"
    /\ last.score = NoScore
    /\ storeKeys # <<>>
    /\ scoreCache[last.id] = NoScore

\* The signals of one source among an entity's signals.
OfSource(signals, source) == SelectSeq(signals, LAMBDA s : s.source = source)

\* round(meanA * weightA + meanB * weightB), the mean of no signals being 0.
WeightedMeans(signals) ==
    LET a == OfSource(signals, "apollo")
        z == OfSource(signals, "zoominfo")
        da == IF Len(a) = 0 THEN 1 ELSE Len(a)
        dz == IF Len(z) = 0 THEN 1 ELSE Len(z)
    IN RoundFrac(StrengthSum(a) * config.apolloWeight * dz
                   + StrengthSum(z) * config.zoomInfoWeight * da,
                 100 * da * dz)

Strength(signals, source) == StrengthSum(OfSource(signals, source))

\* C10: the overall score is round(scoreA * weightA + scoreB * weightB),
\* a source without signals scoring 0: for fresh signals each source score is
\* the mean strength of its signals; with the default weights a single fresh
\* source-A signal of strength 80 yields 40, and fresh signals A = 80 and
\* B = 60 yield 70 with signalCount 2.
C10_OverallIsWeightedSum ==
    (Scored /\ now = 0) =>
       LET signals == signalStore[last.id]
       IN /\ last.score.overallScore = WeightedMeans(signals)
          /\ (/\ config = DefaultConfig
              /\ Len(signals) = 1
              /\ Strength(signals, "apollo") = 80)
                => last.score.overallScore = 40
          /\ (/\ config = DefaultConfig
              /\ Len(signals) = 2
              /\ Len(OfSource(signals, "apollo")) = 1
              /\ Strength(signals, "apollo") = 80
              /\ Strength(signals, "zoominfo") = 60)
                => (last.score.overallScore = 70 /\ last.score.signalCount = 2)

\* Fresh signals A = 80 and B = 60 scored 70 under the default weights.
C10_Witness ==
    /\ Scored
    /\ now = 0
    /\ config = DefaultConfig
    /\ Len(signalStore[last.id]) = 2
    /\ Len(OfSource(signalStore[last.id], "apollo")) = 1
    /\ Strength(signalStore[last.id], "apollo") = 80
    /\ Strength(signalStore[last.id], "zoominfo") = 60
    /\ last.score.overallScore = 70
    /\ last.score.signalCount = 2

\* The scores the call recorded in last returned.
ReturnedScores ==
    IF last.op = "computeScore"
    THEN (IF last.score # NoScore THEN {last.score} ELSE {})
    ELSE IF last.op \in {"allScores", "ingest"} THEN Range(last.scores)
    ELSE {}

InRange(x) == 0 <= x /\ x <= 100

\* C11: under every scoring configuration (the weights need not sum to 1)
\* and every ledger of strengths in 0..100, every score of every returned
\* UnifiedScore lies in 0..100: the overall score, both per-source scores
\* and every topic score.
C11_ScoresInRange ==
    \A score \in ReturnedScores :
        /\ InRange(score.overallScore)
        /\ InRange(score.apolloScore)
        /\ InRange(score.zoomInfoScore)
        /\ \A i \in 1..Len(score.topTopics) : InRange(score.topTopics[i].score)

\* The signals that still carry weight at the current time.
Fresh(signals) ==
    SelectSeq(signals,
              LAMBDA s : calculateDecay(s.timestamp, config.decayDays, now) > 0)

\* A source's score at the current time, rounded as the UnifiedScore has it.
SourceScoreNow(signals) ==
    LET score == calculateSourceScore(signals, config.decayDays, now)
    IN RoundFrac(score[1], score[2])

\* C12: a signal aged at least decayDays has decay 0 and counts neither in
\* the numerator nor in the denominator of its source's score: the score of
\* a source is the score of its signals that are not fully decayed, and a
\* source whose signals are all fully decayed scores 0.
C12_DecayedSignalsExcluded ==
    /\ \A c \in Companies, source \in Sources :
          LET mine == OfSource(signalStore[c], source)
              all == calculateSourceScore(mine, config.decayDays, now)
              fresh == calculateSourceScore(Fresh(mine), config.decayDays, now)
          IN /\ \A i \in 1..Len(mine) :
                   now - mine[i].timestamp >= config.decayDays
                      => calculateDecay(mine[i].timestamp, config.decayDays, now) = 0
             /\ all[1] * fresh[2] = fresh[1] * all[2]
             /\ Fresh(mine) = <<>> => all[1] = 0
    /\ Scored =>
          /\ last.score.apolloScore
                = SourceScoreNow(Fresh(OfSource(signalStore[last.id], "apollo")))
          /\ last.score.zoomInfoScore
                = SourceScoreNow(Fresh(OfSource(signalStore[last.id], "zoominfo")))

\* A score computed from two fully decayed weak signals and a strong one
\* that is not, all of one source.
C12_Witness ==
    /\ Scored
    /\ LET mine == OfSource(signalStore[last.id], "apollo")
       IN /\ Len(mine) = 3
          /\ Len(Fresh(mine)) = 1
          /\ mine[1].signalStrength = 20
          /\ mine[2].signalStrength = 80
          /\ mine[3].signalStrength = 20
          /\ Fresh(mine)[1].signalStrength = 80
          /\ last.score.apolloScore = 80

\* The signals a call appended for a company, in the order it appended them.
AppendedFor(call, c) ==
    IF call.op = "addIntentSignal"
    THEN (IF call.signal.companyId = c THEN <<call.signal>> ELSE <<>>)
    ELSE IF call.op = "ingest"
    THEN SelectSeq(call.signals, LAMBDA s : s.companyId = c)
    ELSE <<>>

\* C13: the Signal Ledger is append-only: a full reset empties it, every
\* other operation leaves each entity's signals as they were, followed by
\* the signals the operation appended for that entity in append order (none
\* for a score computation, allScores or detectSpikes, and none for the
\* entities an append is not for); the signals returned for an entity are
\* the stored ones.
C13_LedgerAppendOnly ==
    [][/\ last'.op = "clearAllSignals" =>
            \A c \in Companies : signalStore'[c] = <<>>
       /\ last'.op # "clearAllSignals" =>
            \A c \in Companies :
               signalStore'[c] = signalStore[c] \o AppendedFor(last', c)
       /\ last'.op = "getSignalsForCompany" =>
            last'.signals = signalStore[last'.id]]_vars

\* The two signals of one request are returned in request order, after a
\* score was computed from them, while the other entity has none.
C13_Witness ==
    /\ last.op = "getSignalsForCompany"
    /\ Len(last.signals) = 2
    /\ last.signals[1].signalStrength = 80
    /\ last.signals[2].signalStrength = 20
    /\ scoreCache[last.id] # NoScore
    /\ scoreCache[last.id].signalCount = 2
    /\ \E c \in Companies : signalStore[c] = <<>>

\* What a snapshot is stored for.
SubjectOf(enrichment) ==
    <<enrichment.entityType, enrichment.entityId, enrichment.source>>

\* The snapshot a store returns for a subject.
FetchedFrom(store, subject) ==
    getEnrichmentData(store, subject[1], subject[2], subject[3])

Fetched(subject) == FetchedFrom(enrichmentStore, subject)

\* C14: storeSnapshot for an (entityType, entityId, source) that no snapshot
\* was stored for since the last reset returns absent, whatever the snapshot
\* carries, and stores the snapshot.
C14_FirstStoreNoDelta ==
    [][(/\ last'.op = "storeEnrichmentData"
        /\ stored[SubjectOf(last'.enrichment)] = NoEnrichment)
          => /\ last'.delta = NoEnrichment
             /\ FetchedFrom(enrichmentStore', SubjectOf(last'.enrichment))
                   = last'.enrichment]_vars

\* A first snapshot was stored for a contact while the store held a
\* different snapshot of the company of the same id and source.
C14_Witness ==
    /\ last.op = "storeEnrichmentData"
    /\ last.existing = NoEnrichment
    /\ last.delta = NoEnrichment
    /\ last.enrichment.entityType = "contact"
    /\ stored[<<"company", last.enrichment.entityId, last.enrichment.source>>]
          # NoEnrichment
    /\ stored[<<"company", last.enrichment.entityId, last.enrichment.source>>].data
          # last.enrichment.data

\* C15: the snapshot fetched for (entityType, entityId, source) is the one
\* most recently stored for exactly that triple since the last reset, absent
\* if none: every storeSnapshot, alone or in a batch, replaces the snapshot
\* of its key, also when it returns no delta, and leaves the others as they
\* were.
C15_FetchIsLastStored ==
    /\ [](\A subject \in Subjects : Fetched(subject) = stored[subject])
    /\ [](last.op = "getEnrichmentData" =>
            last.data = stored[<<last.entityType, last.entityId, last.source>>])
    /\ [][last'.op = "storeEnrichmentData" =>
            \A subject \in Subjects :
               FetchedFrom(enrichmentStore', subject) =
                  IF subject = SubjectOf(last'.enrichment)
                  THEN last'.enrichment ELSE Fetched(subject)]_vars

\* A store that returned no delta replaced a snapshot that differs from the
\* new one in a field that is not tracked, while another key holds one.
C15_Witness ==
    /\ last.op = "storeEnrichmentData"
    /\ last.existing # NoEnrichment
    /\ last.existing # last.enrichment
    /\ last.delta = NoEnrichment
    /\ Fetched(SubjectOf(last.enrichment)) = last.enrichment
    /\ Held(enrichmentStore) = 2

\* Two values differ: they are of different kinds or are different values
\* of one kind.
Differs(a, b) == a.type # b.type \/ a # b

\* The trackable fields whose value differs between two attribute maps, in
\* declaration order.
Differing(oldData, newData) ==
    SelectSeq(trackableFields,
              LAMBDA field : Differs(Get(oldData, field), Get(newData, field)))

\* C16: storeSnapshot on a key that holds a snapshot returns a delta whose
\* changes are exactly the trackable fields whose value differs between the
\* stored and the new snapshot, one FieldChange each with oldValue from the
\* stored and newValue from the new one, in declaration order, and returns
\* absent iff no trackable field differs.
C16_DeltaIsDifferingFields ==
    (last.op = "storeEnrichmentData" /\ last.existing # NoEnrichment) =>
       LET oldData == last.existing.data
           newData == last.enrichment.data
           fields == Differing(oldData, newData)
       IN IF fields = <<>> THEN last.delta = NoEnrichment
          ELSE /\ last.delta # NoEnrichment
               /\ last.delta.changes =
                     [i \in 1..Len(fields) |->
                         [field |-> fields[i],
                          oldValue |-> Get(oldData, fields[i]),
                          newValue |-> Get(newData, fields[i])]]

\* The deltas and the store of storeSnapshot called on each snapshot in
\* turn, kept in an accumulator.
RECURSIVE StoreEach(_, _, _)
StoreEach(acc, enrichments, t) ==
    IF enrichments = <<>> THEN acc
    ELSE LET r == storeEnrichmentData(acc.store, Head(enrichments), t)
         IN StoreEach([store |-> r.store,
                       deltas |-> IF r.delta = NoEnrichment THEN acc.deltas
                                  ELSE Append(acc.deltas, r.delta)],
                      Tail(enrichments), t)

\* C17: processBatch(snapshots) leaves the store as storeSnapshot called on
\* each element in input order leaves it and returns the non-absent deltas
\* of those calls in input order; a later element is diffed against an
\* earlier element of the same batch with the same key.
C17_BatchIsSequentialStores ==
    [][last'.op = "processBatchEnrichment" =>
          LET each == StoreEach([store |-> enrichmentStore, deltas |-> <<>>],
                                last'.enrichments, now)
          IN /\ enrichmentStore' = each.store
             /\ last'.deltas = each.deltas
             /\ \A subject \in Subjects :
                   FetchedFrom(enrichmentStore', subject) = stored'[subject]]_vars

\* A batch of two snapshots of one key, the first of which was the key's
\* first: the second is diffed against the first.
C17_Witness ==
    /\ last.op = "processBatchEnrichment"
    /\ Len(last.enrichments) = 2
    /\ SubjectOf(last.enrichments[1]) = SubjectOf(last.enrichments[2])
    /\ Held(enrichmentStore) = 1
    /\ Len(last.deltas) = 1
    /\ last.deltas[1].changes =
          <<[field |-> "employeeCount", oldValue |-> Num(500),
             newValue |-> Num(600)]>>

\* A value that is not absent, null or the empty string.
Meaningful(value) ==
    /\ value.type \notin {"undefined", "null"}
    /\ value.type = "string" => value.v # ""

\* The attribute map last stored for a source of the merged entity, the
\* empty map if none.
StoredData(call, source) ==
    IF stored[<<call.entityType, call.entityId, source>>] = NoEnrichment
    THEN EmptyMap
    ELSE stored[<<call.entityType, call.entityId, source>>].data

\* The source a merge call gives priority to, zoominfo unless told.
PriorityOf(call) ==
    IF call.prioritySource = "apollo" THEN "apollo" ELSE "zoominfo"

OtherOf(source) == CHOOSE other \in Sources : other # source

\* The keys either source's stored attribute map has.
MergeKeys(call) ==
    DOMAIN StoredData(call, "apollo") \cup DOMAIN StoredData(call, "zoominfo")

\* C18: merge (priority zoominfo by default): for every key, if the priority
\* source's snapshot gives it a value that is not absent, null or the empty
\* string, the merged value is that value; otherwise, if the other source's
\* snapshot has the key, the merged value is the other source's.  The
\* example maps A and B merge to employeeCount 600 with A's industry and
\* website and B's annualRevenue, and to employeeCount 500 with priority A.
C18_PriorityWinsWhenPopulated ==
    last.op = "mergeEnrichmentData" =>
       LET primary == StoredData(last, PriorityOf(last))
           secondary == StoredData(last, OtherOf(PriorityOf(last)))
       IN /\ \A key \in MergeKeys(last) :
                IF key \in DOMAIN primary /\ Meaningful(primary[key])
                THEN key \in DOMAIN last.merged /\ last.merged[key] = primary[key]
                ELSE key \in DOMAIN secondary =>
                        (key \in DOMAIN last.merged
                            /\ last.merged[key] = secondary[key])
          /\ (/\ StoredData(last, "apollo") = ExampleA
              /\ StoredData(last, "zoominfo") = ExampleB)
                => last.merged =
                      [ExampleA @@ ExampleB EXCEPT
                          !["employeeCount"] =
                              IF PriorityOf(last) = "apollo" THEN Num(500)
                              ELSE Num(600)]

\* The example maps A and B merged with the default priority.
C18_Witness ==
    /\ last.op = "mergeEnrichmentData"
    /\ last.prioritySource = "undefined"
    /\ StoredData(last, "apollo") = ExampleA
    /\ StoredData(last, "zoominfo") = ExampleB
    /\ last.merged["employeeCount"] = Num(600)
    /\ last.merged["industry"] = Str("SaaS")
    /\ last.merged["annualRevenue"] = Num(1000000)

\* C19 as claimed: the keys of the merged map are the union of the keys of
\* the two sources' stored attribute maps.
C19_KeysAreUnion ==
    last.op = "mergeEnrichmentData" => DOMAIN last.merged = MergeKeys(last)

\* C19: the keys of the merged map are the keys of the non-priority source's
\* stored attribute map and the keys the priority source's map gives a value
\* that is not absent, null or the empty string.
C19_KeysAreSecondaryAndPopulated ==
    last.op = "mergeEnrichmentData" =>
       LET primary == StoredData(last, PriorityOf(last))
           secondary == StoredData(last, OtherOf(PriorityOf(last)))
       IN DOMAIN last.merged =
             DOMAIN secondary
                \cup {key \in DOMAIN primary : Meaningful(primary[key])}

\* A merge whose priority source has a null industry the other source does
\* not have: the merged map has the other keys of both and no industry.
C19_Witness ==
    /\ last.op = "mergeEnrichmentData"
    /\ "industry" \in DOMAIN StoredData(last, PriorityOf(last))
    /\ StoredData(last, PriorityOf(last))["industry"] = Null
    /\ "employeeCount" \in DOMAIN StoredData(last, PriorityOf(last))
    /\ DOMAIN StoredData(last, OtherOf(PriorityOf(last))) = {"technologies"}
    /\ DOMAIN last.merged = {"employeeCount", "technologies"}

\* The calls that only read the store.
Reads == {"mergeEnrichmentData", "getEnrichmentData", "getAllEnrichmentForEntity"}

\* C20: merge and the snapshot reads never modify the Enrichment Ledger; a
\* merge called again with the same arguments and no store in between
\* returns an equal map; merge returns the empty map when no snapshot is
\* stored for the entity under either source.
C20_ReadsArePure ==
    /\ [][last'.op \in Reads => UNCHANGED enrichmentStore]_vars
    /\ [](last.op = "mergeEnrichmentData" =>
            /\ mergeEnrichmentData(enrichmentStore, last.entityType, last.entityId,
                                   PriorityOf(last)) = last.merged
            /\ (\A source \in Sources :
                   stored[<<last.entityType, last.entityId, source>>] = NoEnrichment)
                  => last.merged = EmptyMap)
    /\ [](last.op = "getAllEnrichmentForEntity" =>
            last.results = getAllEnrichmentForEntity(enrichmentStore,
                               last.entityType, last.entityId))

\* A merge of two stored snapshots returned a map with entries and left
\* both in the store.
C20_Witness ==
    /\ last.op = "mergeEnrichmentData"
    /\ last.merged # EmptyMap
    /\ \A source \in Sources :
          Fetched(<<last.entityType, last.entityId, source>>) # NoEnrichment

\* The call recorded in last is a calculateICPMatch.
Classified == last.op = "calculateICPMatch"

\* The positions of the criteria that the attribute map does or does not
\* satisfy.
Positions(companyData, criteria, matched) ==
    {i \in 1..Len(criteria) :
        evaluateCriterion(Get(companyData, criteria[i].field), criteria[i]) = matched}

\* The sum of the weights at a set of positions.
RECURSIVE WeightAt(_, _)
WeightAt(weighted, positions) ==
    IF positions = {} THEN 0
    ELSE weighted[CHOOSE i \in positions : TRUE].weight
         + WeightAt(weighted, positions \ {CHOOSE i \in positions : TRUE})

\* The positions of a set in increasing order.
Ascending(positions) ==
    CHOOSE order \in [1..Cardinality(positions) -> positions] :
        \A i, j \in 1..Cardinality(positions) : i < j => order[i] < order[j]

\* A list of criterion results is that of the criteria at the positions, in
\* declaration order, each with the company's value of its field.
ListsCriteria(results, companyData, criteria, order, matched) ==
    /\ Len(results) = Len(order)
    /\ \A k \in 1..Len(order) :
          /\ results[k].name = criteria[order[k]].name
          /\ results[k].weight = criteria[order[k]].weight
          /\ results[k].matched = matched
          /\ results[k].actualValue = Get(companyData, criteria[order[k]].field)
          /\ results[k].expectedValue = criteria[order[k]].value

\* round(100 * matchedWeight / totalWeight), half up; 0 for no weight.
RoundedShare(matchedWeight, totalWeight) ==
    IF totalWeight = 0 THEN 0
    ELSE CHOOSE n \in 0..100 :
            /\ 2 * totalWeight * n <= 200 * matchedWeight + totalWeight
            /\ 200 * matchedWeight + totalWeight < 2 * totalWeight * (n + 1)

\* The score and the two lists of a result follow the claim.
Evaluated(result, companyData, criteria) ==
    /\ result.matchScore =
          RoundedShare(WeightAt(criteria, Positions(companyData, criteria, TRUE)),
                       WeightAt(criteria, 1..Len(criteria)))
    /\ ListsCriteria(result.matchedCriteria, companyData, criteria,
                     Ascending(Positions(companyData, criteria, TRUE)), TRUE)
    /\ ListsCriteria(result.unmatchedCriteria, companyData, criteria,
                     Ascending(Positions(companyData, criteria, FALSE)), FALSE)
    /\ \A i \in 1..Len(criteria) :
          Get(companyData, criteria[i].field).type \in {"undefined", "null"}
             => i \in Positions(companyData, criteria, FALSE)

\* A map without any criterion field scores 0 with all criteria unmatched.
MissingAllScoresZero(result, companyData, criteria) ==
    (\A i \in 1..Len(criteria) : criteria[i].field \notin DOMAIN companyData)
       => /\ result.matchScore = 0
          /\ result.matchedCriteria = <<>>
          /\ Len(result.unmatchedCriteria) = Len(criteria)

\* The score of the persona result is the rounded share of the weight of
\* its matched attributes.
PersonaEvaluated(result) ==
    result.matchScore =
        RoundedShare(WeightAt(result.attributes,
                         {i \in 1..Len(result.attributes) : result.attributes[i].matched}),
                     WeightAt(result.attributes, 1..Len(result.attributes)))

Tiers == <<"A", "B", "C", "D">>

\* The position of a tier in Tiers.
TierRank(tier) == CHOOSE i \in 1..4 : Tiers[i] = tier

\* The tier the thresholds 80, 60 and 40 give a score.
TierOfScore(score, tier) ==
    /\ tier = "A" <=> score >= 80
    /\ tier = "B" <=> (60 <= score /\ score < 80)
    /\ tier = "C" <=> (40 <= score /\ score < 60)
    /\ tier = "D" <=> score < 40

\* C22: classifyCompany maps the match score to a tier by fixed thresholds
\* (>= 80 A, 60..79 B, 40..59 C, < 40 D); the tier is monotone in the score,
\* and the tier of every result is the image of that result's matchScore.
C22_TierByThresholds ==
    Classified =>
        /\ TierOfScore(last.result.matchScore, last.result.tier)
        /\ \A score \in 0..100 :
              /\ score <= last.result.matchScore
                    => TierRank(last.result.tier) <= TierRank(determineTier(score))
              /\ score >= last.result.matchScore
                    => TierRank(determineTier(score)) <= TierRank(last.result.tier)

\* A company was classified by the default profile with a score of exactly
\* 60, the lower threshold of tier B.
C22_Witness ==
    /\ Classified
    /\ last.profile = defaultICPProfile
    /\ last.result.matchScore = 60
    /\ last.result.tier = "B"

\* The call recorded in last is a calculatePersonaScore.
PersonaScored == last.op = "calculatePersonaScore"

\* The positions of the attributes of a profile that the contact matches.
MatchedAttributes(contactData, attributes) ==
    {i \in 1..Len(attributes) :
        evaluatePersonaAttribute(Get(contactData, attributes[i].field), attributes[i])}

\* The score of a contact against one persona profile.
PersonaShare(contactData, profile) ==
    RoundedShare(WeightAt(profile.attributes,
                          MatchedAttributes(contactData, profile.attributes)),
                 WeightAt(profile.attributes, 1..Len(profile.attributes)))

\* The result is that of the profile at position i, which no earlier profile
\* equals and no profile exceeds in score.
SelectedAt(result, contactData, profiles, i) ==
    /\ result.personaType = profiles[i].name
    /\ result.matchScore = PersonaShare(contactData, profiles[i])
    /\ result.attributes = evaluatePersonaProfile(contactData, profiles[i]).attributes
    /\ \A j \in 1..Len(profiles) :
          PersonaShare(contactData, profiles[j]) <= result.matchScore
    /\ \A j \in 1..(i - 1) :
          PersonaShare(contactData, profiles[j]) < result.matchScore

\* C23: calculatePersonaScore evaluates every configured profile in declared
\* order and returns the one with the strictly highest score, the earliest
\* winning ties; it always returns a result, and when no attribute matches
\* any profile the result is the first-declared profile with score 0.
C23_BestPersonaFirstWins ==
    (PersonaScored /\ last.profiles # <<>>) =>
        /\ \E i \in 1..Len(last.profiles) :
              SelectedAt(last.result, last.contactData, last.profiles, i)
        /\ (\A j \in 1..Len(last.profiles) :
                MatchedAttributes(last.contactData, last.profiles[j].attributes) = {})
              => /\ last.result.personaType = last.profiles[1].name
                 /\ last.result.matchScore = 0

\* A contact was scored against two profiles that both score 100, and the
\* first was returned.
C23_Witness ==
    /\ PersonaScored
    /\ Len(last.profiles) = 2
    /\ PersonaShare(last.contactData, last.profiles[1]) = 100
    /\ PersonaShare(last.contactData, last.profiles[2]) = 100
    /\ last.result.personaType = last.profiles[1].name
    /\ last.result.matchScore = 100

\* The scoring engine answers as one that holds nothing.
NothingScored ==
    /\ signalStore = EmptyStore
    /\ storeKeys = <<>>
    /\ scoreCache = EmptyCache
    /\ \A c \in Companies :
          calculateUnifiedScore(c, signalStore, scoreCache, config, now).score = NoScore
    /\ getAllUnifiedScores(storeKeys, signalStore, scoreCache, config, now).scores = <<>>
    /\ detectAwarenessSpikes(storeKeys, signalStore, scoreCache, config, now).spikes = <<>>

\* The enrichment tracker answers as one that holds nothing.
NothingFetched ==
    /\ enrichmentStore = EmptyEnrichmentStore
    /\ \A subject \in Subjects : Fetched(subject) = NoEnrichment
    /\ \A enrichment \in Enrichments(EntityTypes, Datas, now) :
          storeEnrichmentData(enrichmentStore, enrichment, now).delta = NoEnrichment

\* The scores a step returned.
Returned(call) ==
    IF call.op = "computeScore" THEN NonNull(call.score)
    ELSE IF call.op = "allScores" THEN call.scores
    ELSE IF call.op = "detectSpikes" THEN call.spikes
    ELSE <<>>

\* C24: after clearAllSignals the ledger and the baseline cache are empty
\* (computeScore is absent for every entity, allScores and detectSpikes are
\* empty) and the first score computed for an entity afterwards has trend
\* "stable" and isSpike false; after clearAllEnrichmentData every fetch is
\* absent and the next storeSnapshot of any key returns no delta.
C24_ResetRestoresInitialState ==
    /\ [](last.op = "clearAllSignals" => NothingScored)
    /\ [][\A i \in 1..Len(Returned(last')) :
            computed[Returned(last')[i].companyId] = NoScore
               => StableNoSpike(Returned(last')[i])]_vars
    /\ [](last.op = "clearAllEnrichmentData" => NothingFetched)
    /\ [][(/\ last'.op = "storeEnrichmentData"
           /\ stored[SubjectOf(last'.enrichment)] = NoEnrichment)
             => last'.delta = NoEnrichment]_vars

\* clearAllSignals ran on a ledger with signals of both companies and a
\* cached score of each, while the enrichment tracker held a snapshot.
C24_Witness ==
    /\ last.op = "clearAllSignals"
    /\ Len(last.keys) = 2
    /\ last.cached = Companies
    /\ Held(enrichmentStore) > 0
    /\ NothingScored

\* undefined or null.
Nullish(x) == x.type \in {"undefined", "null"}

\* The fields a delta has a FieldChange for.
ChangedIn(delta) ==
    IF delta = NoEnrichment THEN {}
    ELSE {delta.changes[i].field : i \in 1..Len(delta.changes)}

\* C27: in the delta comparison of storeSnapshot, undefined and null are
\* equal to each other and different from every concrete value: a trackable
\* field that goes from absent to null or from null to absent has no
\* FieldChange, a field that goes between absent / null and a concrete value
\* has one.
C27_NullishValuesEqual ==
    (last.op = "storeEnrichmentData" /\ last.existing # NoEnrichment) =>
        \A i \in 1..Len(trackableFields) :
            /\ (/\ Nullish(Get(last.existing.data, trackableFields[i]))
                /\ Nullish(Get(last.enrichment.data, trackableFields[i])))
                  => trackableFields[i] \notin ChangedIn(last.delta)
            /\ (Nullish(Get(last.existing.data, trackableFields[i]))
                   # Nullish(Get(last.enrichment.data, trackableFields[i])))
                  => trackableFields[i] \in ChangedIn(last.delta)

\* The profile of a list that a persona result names.
Winner(profiles, personaType) ==
    profiles[CHOOSE i \in 1..Len(profiles) : profiles[i].name = personaType]

\* An 'equals' attribute is matched only by a value that is one of the
\* expected values, letter case included.
ExactlyEqual(contactData, attr, matched) ==
    (attr.operator = "equals" /\ matched) =>
        /\ Get(contactData, attr.field).type = "string"
        /\ \E k \in 1..Len(attr.values) :
              Get(contactData, attr.field).v = attr.values[k]

\* C28: 'equals' is exact value equality in ICP and in persona
\* classification alike: an ICP 'equals' criterion and a persona 'equals'
\* attribute match only a value that is exactly equal, letter case included,
\* to the expected value or to one of the expected values.
C28_EqualsIsExact ==
    /\ Classified =>
          \A i \in 1..Len(last.result.matchedCriteria) :
              \A j \in 1..Len(last.profile.criteria) :
                  (/\ last.profile.criteria[j].name = last.result.matchedCriteria[i].name
                   /\ last.profile.criteria[j].operator = "equals")
                     => Get(last.companyData, last.profile.criteria[j].field)
                            = last.profile.criteria[j].value
    /\ (PersonaScored /\ last.profiles # <<>>) =>
          \A i \in 1..Len(last.result.attributes) :
              ExactlyEqual(last.contactData,
                           Winner(last.profiles, last.result.personaType).attributes[i],
                           last.result.attributes[i].matched)

\* C29: with a positive spike threshold no score that calculateUnifiedScore
\* returns (for computeScore, allScores or detectSpikes) has isSpike true
\* together with trend "decreasing"; isSpike true with trend "stable" is
\* possible.
C29_NoDecreasingSpike ==
    config.spikeThresholdPercent > 0 =>
        /\ \A c \in Companies :
              computed[c] # NoScore =>
                  ~(computed[c].isSpike /\ computed[c].trend = "decreasing")
        /\ \A score \in ReturnedScores :
              ~(score.isSpike /\ score.trend = "decreasing")

\* computeScore returned a spike whose trend is "stable".
C29_Witness ==
    /\ config.spikeThresholdPercent > 0
    /\ last.op = "computeScore"
    /\ last.score # NoScore
    /\ last.score.isSpike
    /\ last.score.trend = "stable"

\* C30: once revokeTokens(portalId) has completed, isAuthenticated(portalId)
\* is false and stays false until an exchangeCodeForTokens for that portal
\* completes, in every interleaving, also while a refreshAccessToken or
\* getValidAccessToken for the portal is in flight.
C30_RevokedStaysUnauthenticated ==
    \A portalId \in revoked : ~isAuthenticated(tokenStore, portalId)

\* The array lacks a required field in one of its elements.
LacksField(array, field) ==
    \E i \in 1..Len(array) : field \notin DOMAIN array[i]

\* The payload of a request is malformed: not an array, or an element lacks
\* its companyId or entityId.
Malformed(call) ==
    \/ NotArray(call.payload)
    \/ call.op = "postIntent" /\ LacksField(call.payload.v, "companyId")
    \/ call.op = "postEnrichment" /\ LacksField(call.payload.v, "entityId")

\* C25: a malformed ingest payload (signals / enrichments not a sequence, or
\* an element without companyId / entityId) is rejected with an error
\* response and leaves the Signal Ledger, the Baseline Cache and the
\* Enrichment Ledger unchanged.
C25_MalformedRejected ==
    [][(last'.op \in {"postIntent", "postEnrichment"} /\ Malformed(last'))
          => /\ last'.status >= 400
             /\ UNCHANGED <<signalStore, storeKeys, scoreCache, enrichmentStore>>]_vars

\* The scores one step can leave cached for an entity: what a computation
\* that reads baseline and ledger gives, or a second one after it (an intent
\* handler scores its entities and then scans for spikes).
WrittenAfter(companyId, store, once) ==
    {once.score,
     calculateUnifiedScore(companyId, store, once.cache, config, now).score}

\* No handler is between two of its awaits.
AllFinished == \A call \in Calls : pending[call] = Idle

\* C26: with handlers running concurrently, every score computation reads
\* the cached baseline, reads the ledger and writes the new baseline in one
\* step: every change of an entity's cache entry is made by a computing step
\* and is the score computed from the baseline cached before that step and
\* the ledger of that step (no update is lost), a handler that resumes after
\* an await writes nothing, and the cache always holds, also once every
\* handler has finished, the score of the last computation for each entity.
C26_ComputationsAreAtomic ==
    /\ [][\A companyId \in Companies :
            scoreCache'[companyId] # scoreCache[companyId]
            => /\ Computes'
               /\ scoreCache'[companyId] \in
                     WrittenAfter(companyId, signalStore',
                        calculateUnifiedScore(companyId, signalStore',
                                              scoreCache, config, now))]_vars
    /\ [][last'.op = "resume" => scoreCache' = scoreCache]_vars
    /\ [](\A companyId \in Companies :
            scoreCache[companyId] = computed[companyId])

\* While a handler awaits HubSpot with a score it computed, another
\* computation has replaced that score in the cache.
C26_Witness ==
    /\ Computes
    /\ \E call \in Calls :
          /\ pending[call].kind = "intent"
          /\ \E i \in 1..Len(pending[call].scores) :
                /\ scoreCache[pending[call].scores[i].companyId]
                      # pending[call].scores[i]
                /\ scoreCache[pending[call].scores[i].companyId].overallScore
                      # pending[call].scores[i].overallScore

====
